---- MODULE Spec2Model ----
(***************************************************************************)
(* Authentication / authorization core of go-clean-architecture:           *)
(*   - jwt.TokenService and the domain JWTService (token issue, validate,  *)
(*     refresh),                                                           *)
(*   - rbac.Enforcer and rbac.PolicyManager (policy engine wrapper and     *)
(*     role synchronisation),                                              *)
(*   - auth.AuthService and usecase.UserUseCase (login, register, role     *)
(*     assignment).                                                        *)
(* Time is counted in ticks; a NumericDate keeps whole seconds only.       *)
(***************************************************************************)
EXTENDS Integers, Sequences, FiniteSets, TLC

\* ------------------------------------------------------------------------
\* Bounds of the model
\* ------------------------------------------------------------------------
MaxTime == 5
TicksPerSecond == 2
MaxExpiration == 3
MaxWindow == 2
MaxUsers == 2

\* ------------------------------------------------------------------------
\* State
\* ------------------------------------------------------------------------
VARIABLES
    now,        \* wall clock, in ticks (time.Now())
    cfg,        \* configuration of the token services
    users,      \* users table joined with user_roles, by user id
    held,       \* the token string the client currently holds
    issuedTo,   \* history: the user entity held was generated from, or Nil
    tres,       \* outcome of the last token operation
    policy,     \* engine: number of copies of each p-rule (sub, obj, act)
    grouping,   \* engine: number of copies of each g-tuple (user, role)
    eres,       \* outcome of the last engine / use-case operation
    sync,       \* the running executions of SyncUserPolicies
    ioFailed,   \* history: an engine call has failed on its storage
    roleTable,      \* roles table: the names of the role rows
    rolePermTable,  \* role_permissions table: (role name, permission id)
    ctx             \* fiber.Ctx of the request in flight: Locals and response

vars == <<now, cfg, users, held, issuedTo, tres, policy, grouping, eres, sync, ioFailed,
          roleTable, rolePermTable, ctx>>

\* ------------------------------------------------------------------------
\* Values
\* ------------------------------------------------------------------------
Nil == [nil |-> TRUE]
NoToken == [empty |-> TRUE]

UserIDs == 1..MaxUsers
RoleNames == {"employee", "hr_manager"}
Emails == {"alice@example.com", "bob@example.com"}

\* policy engine: p-rules (sub, obj, act) and g-tuples (user or role, role)
Objects == {"employees"}
Actions == {"read", "delete"}
Rules == RoleNames \X Objects \X Actions
\* authorizationService names a user in the engine by fmt.Sprintf("user:%d", id)
UserKey(id) == "user:" \o ToString(id)
Groupings == (Emails \cup {UserKey(id) : id \in UserIDs} \cup RoleNames) \X RoleNames
IOOutcomes == {"ok", "engine_err", "save_err"}

NoRules == [r \in Rules |-> 0]
NoGroupings == [g \in Groupings |-> 0]
EIdle == [op |-> "idle", args |-> <<>>, err |-> "nil", result |-> FALSE]

SecretKey == "server-secret"
AttackerKey == "attacker-secret"
Issuer == "hr-api"

\* permissions table: rows by id
PermissionRows ==
    << [Name |-> "users.create", Resource |-> "users", Action |-> "create"],
       [Name |-> "users.read", Resource |-> "users", Action |-> "read"],
       [Name |-> "profile.read", Resource |-> "profile", Action |-> "read"],
       [Name |-> "employees.read", Resource |-> "employees", Action |-> "read"],
       [Name |-> "employees.delete", Resource |-> "employees", Action |-> "delete"] >>
PermissionIDs == DOMAIN PermissionRows

\* role_permissions rows the migrations insert for the seeded roles
SeededRolePermissions ==
    {<<"hr_manager", 1>>, <<"hr_manager", 2>>, <<"hr_manager", 3>>,
     <<"employee", 2>>, <<"employee", 3>>}

\* a request that has reached no handler yet: no Locals, no response
NoRequest == [locals |-> [nil |-> TRUE], status |-> 0, gate |-> [op |-> "none"]]

\* Preload("Roles.Permissions"): the permission names of a role, by id
RolePermissions(r) ==
    LET ids == SelectSeq([i \in PermissionIDs |-> i],
                         LAMBDA i : <<r, i>> \in rolePermTable)
    IN  [k \in DOMAIN ids |-> PermissionRows[ids[k]].Name]

Range(s) == {s[i] : i \in DOMAIN s}
NoDuplicates(s) == \A i, j \in DOMAIN s : s[i] = s[j] => i = j

\* Role lists a user row can carry: user_roles has UNIQUE(user_id, role_id)
RoleLists == {s \in UNION {[1..n -> RoleNames] : n \in 0..Cardinality(RoleNames)} : NoDuplicates(s)}

NoUser == [exists |-> FALSE]

\* userRepository.GetByIDWithRoles: the row with Roles and Roles.Permissions
GetByIDWithRoles(id) ==
    IF id \in UserIDs /\ users[id].exists
    THEN [ID |-> id, Email |-> users[id].email, Active |-> users[id].active,
          Roles |-> [i \in DOMAIN users[id].roles |->
                        [Name |-> users[id].roles[i],
                         Permissions |-> RolePermissions(users[id].roles[i])]]]
    ELSE Nil

RoleNameSet(user) == {user.Roles[i].Name : i \in DOMAIN user.Roles}
PermissionNameSet(user) ==
    UNION {Range(user.Roles[i].Permissions) : i \in DOMAIN user.Roles}

\* ------------------------------------------------------------------------
\* Token format: header (alg), claims, signature
\* ------------------------------------------------------------------------
\* jwt.NewNumericDate truncates to whole seconds
NumericDate(t) == t - (t % TicksPerSecond)

\* HMAC over header and claims with a key
SignedString(alg, claims, key) == [alg |-> alg, over |-> claims, key |-> key]

NewWithClaims(claims, key) ==
    [alg |-> "HS256", claims |-> claims, sig |-> SignedString("HS256", claims, key)]

RECURSIVE AllPermissions(_)
AllPermissions(roles) ==
    IF roles = <<>> THEN <<>>
    ELSE Head(roles).Permissions \o AllPermissions(Tail(roles))

\* variant: every permission name is appended, seen before or not
CollectWithRepeats(names, acc) == acc \o names

RECURSIVE CollectUnique(_, _)
CollectUnique(names, acc) ==
    IF names = <<>> THEN acc
    ELSE IF Head(names) \in Range(acc)
         THEN CollectUnique(Tail(names), acc)
         ELSE CollectUnique(Tail(names), Append(acc, Head(names)))

\* TokenService.GenerateToken
GenerateToken(user, t) ==
    IF user = Nil THEN [token |-> NoToken, err |-> "user cannot be nil"]
    ELSE [token |-> NewWithClaims(
                [UserID |-> user.ID,
                 Email |-> user.Email,
                 Roles |-> [i \in DOMAIN user.Roles |-> user.Roles[i].Name],
                 Permissions |-> CollectUnique(AllPermissions(user.Roles), <<>>),
                 Issuer |-> Issuer,
                 Subject |-> user.Email,
                 ExpiresAt |-> NumericDate(t + cfg.tokenExpiration),
                 IssuedAt |-> NumericDate(t),
                 NotBefore |-> NumericDate(t)], SecretKey),
          err |-> "nil"]

\* variant: the registered claims are examined before the signature
ParseClaimsFirst(tok, key, validateClaims, t) ==
    IF tok = NoToken THEN "malformed"
    ELSE IF validateClaims /\ ~(t < tok.claims.ExpiresAt) THEN "expired"
    ELSE IF tok.alg # "HS256" THEN "unverifiable"
    ELSE IF tok.sig # SignedString(tok.alg, tok.claims, key) THEN "signature_invalid"
    ELSE IF validateClaims /\ t < tok.claims.NotBefore THEN "not_valid_yet"
    ELSE "ok"

\* jwt.ParseWithClaims: key function, signature, then registered claims
ParseWithClaims(tok, key, validateClaims, t) ==
    IF tok = NoToken THEN "malformed"
    ELSE IF tok.alg # "HS256" THEN "unverifiable"
    ELSE IF tok.sig # SignedString(tok.alg, tok.claims, key) THEN "signature_invalid"
    ELSE IF validateClaims /\ ~(t < tok.claims.ExpiresAt) THEN "expired"
    ELSE IF validateClaims /\ t < tok.claims.NotBefore THEN "not_valid_yet"
    ELSE "ok"

\* TokenService.ValidateToken (jwtService.ValidateToken has the same body)
ValidateToken(tok, t) ==
    LET perr == ParseWithClaims(tok, SecretKey, TRUE, t) IN
    IF perr # "ok"
    THEN IF perr = "expired"
         THEN [claims |-> Nil, err |-> "ErrExpiredToken"]
         ELSE [claims |-> Nil, err |-> "ErrInvalidToken"]
    ELSE [claims |-> tok.claims, err |-> "nil"]

\* variant: the refreshed token is built from the stored user
RefreshTokenFromStore(claims, t) ==
    IF claims = Nil THEN [token |-> NoToken, err |-> "claims cannot be nil"]
    ELSE GenerateToken(GetByIDWithRoles(claims.UserID), t)

\* TokenService.RefreshToken(claims)
RefreshToken(claims, t) ==
    IF claims = Nil THEN [token |-> NoToken, err |-> "claims cannot be nil"]
    ELSE [token |-> NewWithClaims(
                [UserID |-> claims.UserID,
                 Email |-> claims.Email,
                 Roles |-> claims.Roles,
                 Permissions |-> claims.Permissions,
                 Issuer |-> Issuer,
                 Subject |-> claims.Subject,
                 ExpiresAt |-> NumericDate(t + cfg.tokenExpiration),
                 IssuedAt |-> NumericDate(t),
                 NotBefore |-> NumericDate(t)], SecretKey),
          err |-> "nil"]

\* jwtService.ExtractClaims: signature checked, registered claims not
ExtractClaims(tok) ==
    IF ParseWithClaims(tok, SecretKey, FALSE, 0) # "ok"
    THEN [claims |-> Nil, err |-> "ErrInvalidToken"]
    ELSE [claims |-> tok.claims, err |-> "nil"]

\* jwtService.GenerateToken(userID, email, roles, permissions)
JwtGenerateToken(userID, email, roles, permissions, t) ==
    [token |-> NewWithClaims(
                [UserID |-> userID,
                 Email |-> email,
                 Roles |-> roles,
                 Permissions |-> permissions,
                 Issuer |-> Issuer,
                 Subject |-> email,
                 ExpiresAt |-> NumericDate(t + cfg.tokenExpiration),
                 IssuedAt |-> NumericDate(t),
                 NotBefore |-> NumericDate(t)], SecretKey),
     err |-> "nil"]

\* jwtService.RefreshToken(tokenString)
JwtRefreshToken(tok, t) ==
    LET ex == ExtractClaims(tok) IN
    IF ex.err # "nil" THEN [token |-> NoToken, err |-> ex.err]
    ELSE IF ex.claims.ExpiresAt - t > cfg.refreshDuration
         THEN [token |-> NoToken, err |-> "not eligible for refresh"]
         ELSE JwtGenerateToken(ex.claims.UserID, ex.claims.Email,
                               ex.claims.Roles, ex.claims.Permissions, t)

\* ------------------------------------------------------------------------
\* Token operations as steps
\* ------------------------------------------------------------------------
Idle == [op |-> "idle", at |-> 0, input |-> Nil, err |-> "nil", claims |-> Nil, token |-> NoToken]

Genuine(tok) == tok # NoToken /\ ParseWithClaims(tok, SecretKey, FALSE, 0) = "ok"

\* time.Now() advances
Tick ==
    /\ now < MaxTime
    /\ now' = now + 1
    /\ tres' = Idle
    /\ UNCHANGED <<roleTable, rolePermTable, ctx, cfg, users, held, issuedTo, policy, grouping, eres, sync, ioFailed>>

\* userRepository.AssignRole: INSERT ... ON CONFLICT DO NOTHING
AssignRole(userID, role) ==
    IF role \in Range(users[userID].roles) THEN users
    ELSE [users EXCEPT ![userID].roles = Append(@, role)]

\* userRepository.RemoveRole: DELETE ... WHERE user_id = ? AND role_id = ?
RemoveRole(userID, role) ==
    [users EXCEPT ![userID].roles = SelectSeq(@, LAMBDA r : r # role)]

\* the user's roles change in the store while tokens are in circulation
StoreAssignRole(id, role) ==
    /\ users[id].exists
    /\ role \notin Range(users[id].roles)
    /\ users' = AssignRole(id, role)
    /\ tres' = Idle
    /\ eres' = EIdle
    /\ UNCHANGED <<roleTable, rolePermTable, ctx, now, cfg, held, issuedTo, policy, grouping, sync, ioFailed>>

StoreRemoveRole(id, role) ==
    /\ users[id].exists
    /\ role \in Range(users[id].roles)
    /\ users' = RemoveRole(id, role)
    /\ tres' = Idle
    /\ eres' = EIdle
    /\ UNCHANGED <<roleTable, rolePermTable, ctx, now, cfg, held, issuedTo, policy, grouping, sync, ioFailed>>

\* a token is issued for a stored user (or for a nil user reference)
DoGenerateToken(id) ==
    LET user == GetByIDWithRoles(id)
        r == GenerateToken(user, now) IN
    /\ tres' = [op |-> "GenerateToken", at |-> now, input |-> user,
                err |-> r.err, claims |-> Nil, token |-> r.token]
    /\ held' = IF r.err = "nil" THEN r.token ELSE held
    /\ issuedTo' = IF r.err = "nil" THEN user ELSE issuedTo
    /\ UNCHANGED <<roleTable, rolePermTable, ctx, now, cfg, users, policy, grouping, eres, sync, ioFailed>>

\* the client presents the token it holds
DoValidateToken ==
    LET r == ValidateToken(held, now) IN
    /\ held # NoToken
    /\ tres' = [op |-> "ValidateToken", at |-> now, input |-> held,
                err |-> r.err, claims |-> r.claims, token |-> NoToken]
    /\ UNCHANGED <<roleTable, rolePermTable, ctx, now, cfg, users, held, issuedTo, policy, grouping, eres, sync, ioFailed>>

\* TokenService.RefreshToken on the claims of a token of this service, or nil
DoRefreshToken(useNil) ==
    LET claims == IF useNil THEN Nil ELSE held.claims
        r == RefreshToken(claims, now) IN
    /\ useNil \/ Genuine(held)
    /\ tres' = [op |-> "RefreshToken", at |-> now, input |-> claims,
                err |-> r.err, claims |-> Nil, token |-> r.token]
    /\ held' = IF r.err = "nil" THEN r.token ELSE held
    /\ issuedTo' = IF r.err = "nil" THEN Nil ELSE issuedTo
    /\ UNCHANGED <<roleTable, rolePermTable, ctx, now, cfg, users, policy, grouping, eres, sync, ioFailed>>

\* jwtService.RefreshToken on the token string the client holds
DoJwtRefreshToken ==
    LET r == JwtRefreshToken(held, now) IN
    /\ held # NoToken
    /\ tres' = [op |-> "JwtRefreshToken", at |-> now,
                input |-> IF Genuine(held) THEN held.claims ELSE Nil,
                err |-> r.err, claims |-> Nil, token |-> r.token]
    /\ held' = IF r.err = "nil" THEN r.token ELSE held
    /\ issuedTo' = IF r.err = "nil" THEN Nil ELSE issuedTo
    /\ UNCHANGED <<roleTable, rolePermTable, ctx, now, cfg, users, policy, grouping, eres, sync, ioFailed>>

\* the token string is altered on the client's side before it is presented:
\* payload edited under the old signature
TamperRoles(roles) ==
    /\ Genuine(held)
    /\ roles # held.claims.Roles
    /\ held' = [held EXCEPT !.claims.Roles = roles]
    /\ tres' = Idle
    /\ issuedTo' = Nil
    /\ UNCHANGED <<roleTable, rolePermTable, ctx, now, cfg, users, policy, grouping, eres, sync, ioFailed>>

TamperExpiry ==
    /\ Genuine(held)
    /\ held' = [held EXCEPT !.claims.ExpiresAt = @ + TicksPerSecond]
    /\ tres' = Idle
    /\ issuedTo' = Nil
    /\ UNCHANGED <<roleTable, rolePermTable, ctx, now, cfg, users, policy, grouping, eres, sync, ioFailed>>

\* payload edited and signed again with a key that is not the server's
ForgeWithKey(roles) ==
    /\ Genuine(held)
    /\ held' = NewWithClaims([held.claims EXCEPT !.Roles = roles], AttackerKey)
    /\ tres' = Idle
    /\ issuedTo' = Nil
    /\ UNCHANGED <<roleTable, rolePermTable, ctx, now, cfg, users, policy, grouping, eres, sync, ioFailed>>

\* header switched to a signing method that is not HMAC
SwitchMethod(alg) ==
    /\ Genuine(held)
    /\ held' = [held EXCEPT !.alg = alg]
    /\ tres' = Idle
    /\ issuedTo' = Nil
    /\ UNCHANGED <<roleTable, rolePermTable, ctx, now, cfg, users, policy, grouping, eres, sync, ioFailed>>

\* ------------------------------------------------------------------------
\* Initial states
\* ------------------------------------------------------------------------
InitStore ==
    users \in {[id \in UserIDs |->
                  IF id = 1
                  THEN [exists |-> TRUE, email |-> "alice@example.com",
                        active |-> TRUE, roles |-> rl]
                  ELSE NoUser] : rl \in RoleLists}

InitCommon ==
    /\ now = 0
    /\ held = NoToken
    /\ issuedTo = Nil
    /\ tres = Idle
    /\ ioFailed = FALSE
    /\ roleTable = RoleNames
    /\ rolePermTable = SeededRolePermissions
    /\ ctx = NoRequest

InitToken ==
    /\ InitCommon
    /\ cfg \in [tokenExpiration : 1..MaxExpiration, refreshDuration : 0..MaxWindow]
    /\ InitStore
    /\ policy = NoRules
    /\ grouping = NoGroupings
    /\ eres = EIdle
    /\ sync = <<>>

NextToken ==
    \/ Tick
    \/ \E id \in UserIDs, role \in RoleNames : StoreAssignRole(id, role)
    \/ \E id \in UserIDs, role \in RoleNames : StoreRemoveRole(id, role)
    \/ \E id \in UserIDs : DoGenerateToken(id)
    \/ DoValidateToken
    \/ \E useNil \in BOOLEAN : DoRefreshToken(useNil)
    \/ DoJwtRefreshToken
    \/ \E roles \in RoleLists : TamperRoles(roles)
    \/ TamperExpiry
    \/ \E roles \in RoleLists : ForgeWithKey(roles)
    \/ \E alg \in {"none", "RS256"} : SwitchMethod(alg)

SpecToken == InitToken /\ [][NextToken]_vars

\* ------------------------------------------------------------------------
\* Policy engine behind rbac.Enforcer
\* ------------------------------------------------------------------------
RECURSIVE LinkedWithin(_, _, _)
LinkedWithin(a, b, n) ==
    \/ a = b
    \/ /\ n > 0
       /\ \E g \in Groupings :
             grouping[g] > 0 /\ g[1] = a /\ LinkedWithin(g[2], b, n - 1)

\* g(r.sub, p.sub): the subject is the policy subject or inherits it
HasLink(a, b) == LinkedWithin(a, b, Cardinality(RoleNames))

\* m = g(r.sub, p.sub) && r.obj == p.obj && r.act == p.act
Matches(sub, obj, act, rule) ==
    HasLink(sub, rule[1]) /\ obj = rule[2] /\ act = rule[3]

\* Enforcer.Enforce: allow when some policy rule matches
Enforce(subject, object, action) ==
    \E rule \in DOMAIN policy : policy[rule] > 0 /\ Matches(subject, object, action, rule)

\* variant: the answer for the first role is returned as the answer
EnforceFirstRoleOnly(roles, object, action) ==
    roles # <<>> /\ Enforce(Head(roles), object, action)

\* Enforcer.EnforceWithRoles: one evaluation per role, true on first match
RECURSIVE EnforceWithRoles(_, _, _)
EnforceWithRoles(roles, object, action) ==
    IF roles = <<>> THEN FALSE
    ELSE IF Enforce(Head(roles), object, action) THEN TRUE
    ELSE EnforceWithRoles(Tail(roles), object, action)

\* variant: a rule is appended without looking for an existing one
AddPolicyUnchecked(rule, io) ==
    IF io = "engine_err"
    THEN [policy |-> policy, err |-> "engine error", io |-> TRUE]
    ELSE [policy |-> [policy EXCEPT ![rule] = @ + 1],
          err |-> IF io = "save_err" THEN "save error" ELSE "nil",
          io |-> io = "save_err"]

\* variant: adding a rule that is present is accepted silently
AddPolicyQuietly(rule, io) ==
    IF policy[rule] > 0 THEN [policy |-> policy, err |-> "nil", io |-> FALSE]
    ELSE IF io = "engine_err"
    THEN [policy |-> policy, err |-> "engine error", io |-> TRUE]
    ELSE [policy |-> [policy EXCEPT ![rule] = @ + 1],
          err |-> IF io = "save_err" THEN "save error" ELSE "nil",
          io |-> io = "save_err"]

\* Enforcer.AddPolicy
AddPolicy(rule, io) ==
    IF policy[rule] > 0
    THEN [policy |-> policy, err |-> "policy already exists", io |-> FALSE]
    ELSE IF io = "engine_err"
    THEN [policy |-> policy, err |-> "engine error", io |-> TRUE]
    ELSE [policy |-> [policy EXCEPT ![rule] = @ + 1],
          err |-> IF io = "save_err" THEN "save error" ELSE "nil",
          io |-> io = "save_err"]

\* Enforcer.RemovePolicy
RemovePolicy(rule, io) ==
    IF policy[rule] = 0
    THEN [policy |-> policy, err |-> "policy does not exist", io |-> FALSE]
    ELSE IF io = "engine_err"
    THEN [policy |-> policy, err |-> "engine error", io |-> TRUE]
    ELSE [policy |-> [policy EXCEPT ![rule] = 0],
          err |-> IF io = "save_err" THEN "save error" ELSE "nil",
          io |-> io = "save_err"]

\* variant: a g-tuple is appended without looking for an existing one
AddRoleForUserUnchecked(g, user, role, io) ==
    IF io = "engine_err"
    THEN [grouping |-> g, err |-> "engine error", io |-> TRUE]
    ELSE [grouping |-> [g EXCEPT ![<<user, role>>] = @ + 1],
          err |-> IF io = "save_err" THEN "save error" ELSE "nil",
          io |-> io = "save_err"]

\* Enforcer.AddRoleForUser
AddRoleForUser(g, user, role, io) ==
    IF g[<<user, role>>] > 0
    THEN [grouping |-> g, err |-> "role assignment already exists", io |-> FALSE]
    ELSE IF io = "engine_err"
    THEN [grouping |-> g, err |-> "engine error", io |-> TRUE]
    ELSE [grouping |-> [g EXCEPT ![<<user, role>>] = @ + 1],
          err |-> IF io = "save_err" THEN "save error" ELSE "nil",
          io |-> io = "save_err"]

\* variant: success is reported but the g-tuple stays
DeleteRoleForUserKeeps(g, user, role, io) ==
    IF g[<<user, role>>] = 0
    THEN [grouping |-> g, err |-> "role assignment does not exist", io |-> FALSE]
    ELSE IF io = "engine_err"
    THEN [grouping |-> g, err |-> "engine error", io |-> TRUE]
    ELSE [grouping |-> g,
          err |-> IF io = "save_err" THEN "save error" ELSE "nil",
          io |-> io = "save_err"]

\* Enforcer.DeleteRoleForUser
DeleteRoleForUser(g, user, role, io) ==
    IF g[<<user, role>>] = 0
    THEN [grouping |-> g, err |-> "role assignment does not exist", io |-> FALSE]
    ELSE IF io = "engine_err"
    THEN [grouping |-> g, err |-> "engine error", io |-> TRUE]
    ELSE [grouping |-> [g EXCEPT ![<<user, role>>] = 0],
          err |-> IF io = "save_err" THEN "save error" ELSE "nil",
          io |-> io = "save_err"]

\* Enforcer.GetRolesForUser: the roles of the user's g-tuples
GetRolesForUser(g, user) == {role \in RoleNames : g[<<user, role>>] > 0}

DoAddPolicy(rule, io) ==
    LET r == AddPolicy(rule, io) IN
    /\ policy' = r.policy
    /\ eres' = [op |-> "AddPolicy", args |-> rule, err |-> r.err, result |-> FALSE]
    /\ ioFailed' = (ioFailed \/ r.io)
    /\ UNCHANGED <<roleTable, rolePermTable, ctx, now, cfg, users, held, issuedTo, tres, grouping, sync>>

DoRemovePolicy(rule, io) ==
    LET r == RemovePolicy(rule, io) IN
    /\ policy' = r.policy
    /\ eres' = [op |-> "RemovePolicy", args |-> rule, err |-> r.err, result |-> FALSE]
    /\ ioFailed' = (ioFailed \/ r.io)
    /\ UNCHANGED <<roleTable, rolePermTable, ctx, now, cfg, users, held, issuedTo, tres, grouping, sync>>

DoAddRoleForUser(user, role, io) ==
    LET r == AddRoleForUser(grouping, user, role, io) IN
    /\ grouping' = r.grouping
    /\ eres' = [op |-> "AddRoleForUser", args |-> <<user, role>>, err |-> r.err, result |-> FALSE]
    /\ ioFailed' = (ioFailed \/ r.io)
    /\ UNCHANGED <<roleTable, rolePermTable, ctx, now, cfg, users, held, issuedTo, tres, policy, sync>>

DoDeleteRoleForUser(user, role, io) ==
    LET r == DeleteRoleForUser(grouping, user, role, io) IN
    /\ grouping' = r.grouping
    /\ eres' = [op |-> "DeleteRoleForUser", args |-> <<user, role>>, err |-> r.err, result |-> FALSE]
    /\ ioFailed' = (ioFailed \/ r.io)
    /\ UNCHANGED <<roleTable, rolePermTable, ctx, now, cfg, users, held, issuedTo, tres, policy, sync>>

\* PolicyManager.CheckPermissionWithRoles -> Enforcer.EnforceWithRoles
DoEnforceWithRoles(roles, object, action) ==
    /\ eres' = [op |-> "EnforceWithRoles", args |-> <<roles, object, action>>,
                err |-> "nil", result |-> EnforceWithRoles(roles, object, action)]
    /\ UNCHANGED <<roleTable, rolePermTable, ctx, now, cfg, users, held, issuedTo, tres, policy, grouping, sync, ioFailed>>

\* role lists a request can carry: any order, repeats allowed
RequestRoleLists == UNION {[1..n -> RoleNames] : n \in 0..Cardinality(RoleNames)}

\* g-tuples exercised on the bare engine: one user, and role-to-role links
EnforcerGroupings ==
    {g \in Groupings : g[1] \in {"alice@example.com"} \cup RoleNames /\ g[1] # g[2]}

InitEnforcer ==
    /\ InitCommon
    /\ cfg = [tokenExpiration |-> MaxExpiration, refreshDuration |-> MaxWindow]
    /\ users = [id \in UserIDs |-> NoUser]
    /\ policy = NoRules
    /\ grouping = NoGroupings
    /\ eres = EIdle
    /\ sync = <<>>

NextEnforcer ==
    \/ \E rule \in Rules, io \in IOOutcomes : DoAddPolicy(rule, io)
    \/ \E rule \in Rules, io \in IOOutcomes : DoRemovePolicy(rule, io)
    \/ \E g \in EnforcerGroupings, io \in IOOutcomes : DoAddRoleForUser(g[1], g[2], io)
    \/ \E g \in EnforcerGroupings, io \in IOOutcomes : DoDeleteRoleForUser(g[1], g[2], io)
    \/ \E roles \in RequestRoleLists, object \in Objects, action \in Actions :
          DoEnforceWithRoles(roles, object, action)

SpecEnforcer == InitEnforcer /\ [][NextEnforcer]_vars

\* ------------------------------------------------------------------------
\* PolicyManager.SyncUserPolicies
\* ------------------------------------------------------------------------
MaxCalls == 1 + 2 * Cardinality(RoleNames)
FailAts == {[call |-> 0, kind |-> "ok"]}
              \cup [call : 1..MaxCalls, kind : {"engine_err", "save_err"}]
Orderings(S) == {o \in [1..Cardinality(S) -> S] : NoDuplicates(o)}

\* the orders in which GetRolesForUser can list the user's roles
ListingOrders(email) == Orderings(GetRolesForUser(grouping, email))

\* an execution about to read the user's roles from the engine
SyncProc(user) ==
    [pc |-> "read", user |-> user, existing |-> <<>>, i |-> 1, err |-> "nil"]

\* the conditions of the two for-loops
Advance(p) ==
    LET q == IF p.pc = "delete" /\ p.existing = <<>> THEN [p EXCEPT !.pc = "add"] ELSE p
    IN  IF q.pc = "add" /\ q.i > Len(q.user.Roles) THEN [q EXCEPT !.pc = "done"] ELSE q

Return(p, err) == [p EXCEPT !.pc = "done", !.err = err]

\* variant: the loop that deletes the existing roles is left out
SyncStepAddOnly(p, g, io, order) ==
    CASE p.pc = "read" ->
            IF io = "engine_err"
            THEN [p |-> Return(p, "engine error"), grouping |-> g, io |-> TRUE]
            ELSE [p |-> Advance([p EXCEPT !.pc = "add"]), grouping |-> g, io |-> FALSE]
      [] p.pc = "add" ->
            LET r == AddRoleForUser(g, p.user.Email, p.user.Roles[p.i].Name, io) IN
            IF r.err # "nil"
            THEN [p |-> Return(p, r.err), grouping |-> r.grouping, io |-> r.io]
            ELSE [p |-> Advance([p EXCEPT !.i = @ + 1]),
                  grouping |-> r.grouping, io |-> FALSE]
      [] OTHER -> [p |-> p, grouping |-> g, io |-> FALSE]

\* one engine call of SyncUserPolicies; order is the order in which
\* GetRolesForUser lists the roles
SyncStep(p, g, io, order) ==
    CASE p.pc = "read" ->
            IF io = "engine_err"
            THEN [p |-> Return(p, "engine error"), grouping |-> g, io |-> TRUE]
            ELSE [p |-> Advance([p EXCEPT !.pc = "delete", !.existing = order]),
                  grouping |-> g, io |-> FALSE]
      [] p.pc = "delete" ->
            LET r == DeleteRoleForUser(g, p.user.Email, Head(p.existing), io) IN
            IF r.err # "nil"
            THEN [p |-> Return(p, r.err), grouping |-> r.grouping, io |-> r.io]
            ELSE [p |-> Advance([p EXCEPT !.existing = Tail(@)]),
                  grouping |-> r.grouping, io |-> FALSE]
      [] p.pc = "add" ->
            LET r == AddRoleForUser(g, p.user.Email, p.user.Roles[p.i].Name, io) IN
            IF r.err # "nil"
            THEN [p |-> Return(p, r.err), grouping |-> r.grouping, io |-> r.io]
            ELSE [p |-> Advance([p EXCEPT !.i = @ + 1]),
                  grouping |-> r.grouping, io |-> FALSE]
      [] OTHER -> [p |-> p, grouping |-> g, io |-> FALSE]

RECURSIVE RunSync(_, _, _, _, _, _)
RunSync(p, g, n, failAt, order, failed) ==
    IF p.pc = "done" THEN [err |-> p.err, grouping |-> g, io |-> failed]
    ELSE LET io == IF n = failAt.call THEN failAt.kind ELSE "ok"
             s == SyncStep(p, g, io, order)
         IN  RunSync(s.p, s.grouping, n + 1, failAt, order, failed \/ s.io)

\* SyncUserPolicies run from call to return; the engine call numbered
\* failAt.call (if any) fails in the way failAt.kind
SyncUserPolicies(user, g, failAt, order) ==
    RunSync(SyncProc(user), g, 1, failAt, order, FALSE)

IsSyncOf(r, user) == r.op = "SyncUserPolicies" /\ r.args = user

DoSyncUserPolicies(id, failAt, order) ==
    LET user == GetByIDWithRoles(id)
        r == SyncUserPolicies(user, grouping, failAt, order) IN
    /\ user # Nil
    /\ grouping' = r.grouping
    /\ eres' = [op |-> "SyncUserPolicies", args |-> user, err |-> r.err,
                result |-> GetRolesForUser(grouping, user.Email), io |-> r.io,
                again |-> IsSyncOf(eres, user),
                firstIo |-> IF IsSyncOf(eres, user) THEN eres.io ELSE FALSE]
    /\ ioFailed' = (ioFailed \/ r.io)
    /\ UNCHANGED <<roleTable, rolePermTable, ctx, now, cfg, users, held, issuedTo, tres, policy, sync>>

InitSync ==
    /\ InitCommon
    /\ cfg = [tokenExpiration |-> MaxExpiration, refreshDuration |-> MaxWindow]
    /\ InitStore
    /\ policy = NoRules
    /\ grouping = NoGroupings
    /\ eres = EIdle
    /\ sync = <<>>

NextSync ==
    \/ \E id \in UserIDs, failAt \in FailAts :
          \E order \in ListingOrders("alice@example.com") :
             DoSyncUserPolicies(id, failAt, order)
    \/ \E id \in UserIDs, role \in RoleNames : StoreAssignRole(id, role)
    \/ \E id \in UserIDs, role \in RoleNames : StoreRemoveRole(id, role)
    \/ \E role \in RoleNames, io \in IOOutcomes :
          DoAddRoleForUser("alice@example.com", role, io)
    \/ \E role \in RoleNames, io \in IOOutcomes :
          DoDeleteRoleForUser("alice@example.com", role, io)

SpecSync == InitSync /\ [][NextSync]_vars

\* two executions for the same user, interleaved at the engine calls
Procs == {1, 2}

SyncCall(p, io, order) ==
    LET s == SyncStep(sync[p], grouping, io, order) IN
    /\ sync[p].pc # "done"
    /\ sync' = [sync EXCEPT ![p] = s.p]
    /\ grouping' = s.grouping
    /\ ioFailed' = (ioFailed \/ s.io)
    /\ UNCHANGED <<roleTable, rolePermTable, ctx, now, cfg, users, held, issuedTo, tres, policy, eres>>

InitSyncRace ==
    /\ InitCommon
    /\ cfg = [tokenExpiration |-> MaxExpiration, refreshDuration |-> MaxWindow]
    /\ InitStore
    /\ policy = NoRules
    /\ grouping \in {g \in [Groupings -> {0, 1}] :
                        \A t \in Groupings : t[1] # "alice@example.com" => g[t] = 0}
    /\ eres = EIdle
    /\ sync = [p \in Procs |-> SyncProc(GetByIDWithRoles(1))]

NextSyncRace ==
    \E p \in Procs, io \in IOOutcomes :
        \E order \in ListingOrders(sync[p].user.Email) : SyncCall(p, io, order)

SpecSyncRace == InitSyncRace /\ [][NextSyncRace]_vars

\* ------------------------------------------------------------------------
\* auth.AuthService and usecase.UserUseCase
\* ------------------------------------------------------------------------
\* userRepository.GetByEmail / GetByEmailWithRoles: the id of the row, or 0
IdByEmail(email) ==
    IF \E id \in UserIDs : users[id].exists /\ users[id].email = email
    THEN CHOOSE id \in UserIDs : users[id].exists /\ users[id].email = email
    ELSE 0

\* a soft-deleted row keeps its id and its email (DeletedAt is set)
Deleted(email) == [exists |-> FALSE, email |-> email]
EmailTaken(email) == \E id \in UserIDs : users[id] = Deleted(email)
FreeIDs == {id \in UserIDs : users[id] = NoUser}
NextID == CHOOSE id \in FreeIDs : \A other \in FreeIDs : id <= other

\* userRepository.Create of an active user whose only role is employee
CreateRow(email) ==
    [users EXCEPT ![NextID] = [exists |-> TRUE, email |-> email,
                               active |-> TRUE, roles |-> <<"employee">>]]

\* the user entity Register and CreateUser hand to the token service and
\* to SyncUserPolicies
CreatedUser(email) ==
    [ID |-> NextID, Email |-> email, Active |-> TRUE,
     Roles |-> <<[Name |-> "employee", Permissions |-> RolePermissions("employee")]>>]

Unchanged(err) ==
    [users |-> users, grouping |-> grouping, err |-> err, io |-> FALSE, token |-> NoToken,
     syncErr |-> "none"]

\* variant: the password is checked before the active flag
LoginPasswordFirst(email, passwordOK, failAt, order) ==
    LET user == GetByIDWithRoles(IdByEmail(email)) IN
    IF user = Nil THEN Unchanged("ErrInvalidCredentials")
    ELSE IF ~passwordOK THEN Unchanged("ErrInvalidCredentials")
    ELSE IF ~user.Active THEN Unchanged("ErrUserInactive")
    ELSE LET t == GenerateToken(user, now)
             r == SyncUserPolicies(user, grouping, failAt, order) IN
         [users |-> users, grouping |-> r.grouping, err |-> "nil", io |-> r.io,
          token |-> t.token, syncErr |-> r.err]

\* variant: an unknown email is reported with an error of its own
LoginTellsAbsent(email, passwordOK, failAt, order) ==
    LET user == GetByIDWithRoles(IdByEmail(email)) IN
    IF user = Nil THEN Unchanged("ErrUserNotFound")
    ELSE IF ~user.Active THEN Unchanged("ErrUserInactive")
    ELSE IF ~passwordOK THEN Unchanged("ErrInvalidCredentials")
    ELSE LET t == GenerateToken(user, now)
             r == SyncUserPolicies(user, grouping, failAt, order) IN
         [users |-> users, grouping |-> r.grouping, err |-> "nil", io |-> r.io,
          token |-> t.token, syncErr |-> r.err]

\* AuthService.Login
Login(email, passwordOK, failAt, order) ==
    LET user == GetByIDWithRoles(IdByEmail(email)) IN
    IF user = Nil THEN Unchanged("ErrInvalidCredentials")
    ELSE IF ~user.Active THEN Unchanged("ErrUserInactive")
    ELSE IF ~passwordOK THEN Unchanged("ErrInvalidCredentials")
    ELSE LET t == GenerateToken(user, now)
             r == SyncUserPolicies(user, grouping, failAt, order) IN
         [users |-> users, grouping |-> r.grouping, err |-> "nil", io |-> r.io,
          token |-> t.token, syncErr |-> r.err]

\* variant: registering an email that is taken answers with a token for the
\* account that has it
RegisterAnswersExisting(email, failAt, order) ==
    IF IdByEmail(email) # 0
    THEN [users |-> users, grouping |-> grouping, err |-> "nil", io |-> FALSE,
          token |-> GenerateToken(GetByIDWithRoles(IdByEmail(email)), now).token,
          syncErr |-> "none"]
    ELSE IF "employee" \notin roleTable THEN Unchanged("record not found")
    ELSE IF EmailTaken(email) THEN Unchanged("duplicate key value")
    ELSE LET user == CreatedUser(email)
             t == GenerateToken(user, now)
             r == SyncUserPolicies(user, grouping, failAt, order) IN
         [users |-> CreateRow(email), grouping |-> r.grouping, err |-> "nil",
          io |-> r.io, token |-> t.token, syncErr |-> r.err]

\* AuthService.Register
Register(email, failAt, order) ==
    IF IdByEmail(email) # 0 THEN Unchanged("ErrEmailAlreadyExists")
    ELSE IF "employee" \notin roleTable THEN Unchanged("record not found")
    ELSE IF EmailTaken(email) THEN Unchanged("duplicate key value")
    ELSE LET user == CreatedUser(email)
             t == GenerateToken(user, now)
             r == SyncUserPolicies(user, grouping, failAt, order) IN
         [users |-> CreateRow(email), grouping |-> r.grouping, err |-> "nil",
          io |-> r.io, token |-> t.token, syncErr |-> r.err]

\* UserUseCase.CreateUser
CreateUser(email, failAt, order) ==
    IF IdByEmail(email) # 0 THEN Unchanged("email already exists")
    ELSE IF "employee" \notin roleTable THEN Unchanged("record not found")
    ELSE IF EmailTaken(email) THEN Unchanged("duplicate key value")
    ELSE LET r == SyncUserPolicies(CreatedUser(email), grouping, failAt, order) IN
         [users |-> CreateRow(email), grouping |-> r.grouping, err |-> "nil",
          io |-> r.io, token |-> NoToken, syncErr |-> r.err]

\* variant: the role is assigned in the database only
UcAssignRoleStoreOnly(userID, role, io) ==
    LET user == GetByIDWithRoles(userID) IN
    IF user = Nil THEN Unchanged("record not found")
    ELSE IF role \notin roleTable THEN Unchanged("record not found")
    ELSE IF role \in RoleNameSet(user) THEN Unchanged("user already has this role")
    ELSE [users |-> AssignRole(userID, role), grouping |-> grouping,
          err |-> "nil", io |-> FALSE, token |-> NoToken]

\* UserUseCase.AssignRoleToUser
UcAssignRoleToUser(userID, role, io) ==
    LET user == GetByIDWithRoles(userID) IN
    IF user = Nil THEN Unchanged("record not found")
    ELSE IF role \notin roleTable THEN Unchanged("record not found")
    ELSE IF role \in RoleNameSet(user) THEN Unchanged("user already has this role")
    ELSE LET r == AddRoleForUser(grouping, user.Email, role, io) IN
         [users |-> AssignRole(userID, role), grouping |-> r.grouping,
          err |-> r.err, io |-> r.io, token |-> NoToken]

\* UserUseCase.RemoveRoleFromUser
UcRemoveRoleFromUser(userID, role, io) ==
    LET user == GetByIDWithRoles(userID) IN
    IF user = Nil THEN Unchanged("record not found")
    ELSE IF role \notin roleTable THEN Unchanged("record not found")
    ELSE LET r == DeleteRoleForUser(grouping, user.Email, role, io) IN
         [users |-> RemoveRole(userID, role), grouping |-> r.grouping,
          err |-> r.err, io |-> r.io, token |-> NoToken]

\* the outcome of a handler becomes the next state
Apply(op, args, r) ==
    /\ users' = r.users
    /\ grouping' = r.grouping
    /\ ioFailed' = (ioFailed \/ r.io)
    /\ eres' = [op |-> op, args |-> args, err |-> r.err, result |-> FALSE,
                token |-> r.token]
    /\ UNCHANGED <<roleTable, rolePermTable, ctx, now, cfg, held, issuedTo, tres, policy, sync>>

DoLogin(email, passwordOK, failAt, order) ==
    Apply("Login", email, Login(email, passwordOK, failAt, order))

DoRegister(email, failAt, order) ==
    /\ FreeIDs # {}
    /\ Apply("Register", email, Register(email, failAt, order))

DoCreateUser(email, failAt, order) ==
    /\ FreeIDs # {}
    /\ Apply("CreateUser", email, CreateUser(email, failAt, order))

DoAssignRoleToUser(userID, role, io) ==
    Apply("AssignRoleToUser", <<userID, role>>, UcAssignRoleToUser(userID, role, io))

DoRemoveRoleFromUser(userID, role, io) ==
    Apply("RemoveRoleFromUser", <<userID, role>>, UcRemoveRoleFromUser(userID, role, io))

RoleInputs == RoleNames \cup {"no_such_role"}

InitAuth ==
    /\ InitCommon
    /\ cfg = [tokenExpiration |-> MaxExpiration, refreshDuration |-> MaxWindow]
    /\ users = [id \in UserIDs |-> NoUser]
    /\ policy = NoRules
    /\ grouping = NoGroupings
    /\ eres = EIdle
    /\ sync = <<>>

NextAuth ==
    \/ \E email \in Emails, passwordOK \in BOOLEAN, failAt \in FailAts :
          \E order \in ListingOrders(email) : DoLogin(email, passwordOK, failAt, order)
    \/ \E email \in Emails, failAt \in FailAts :
          \E order \in ListingOrders(email) : DoRegister(email, failAt, order)
    \/ \E email \in Emails, failAt \in FailAts :
          \E order \in ListingOrders(email) : DoCreateUser(email, failAt, order)
    \/ \E userID \in UserIDs, role \in RoleInputs, io \in IOOutcomes :
          DoAssignRoleToUser(userID, role, io)
    \/ \E userID \in UserIDs, role \in RoleInputs, io \in IOOutcomes :
          DoRemoveRoleFromUser(userID, role, io)

SpecAuth == InitAuth /\ [][NextAuth]_vars

\* ------------------------------------------------------------------------
\* Login and registration: AuthHandler over auth.AuthService, and the
\* domain authenticationService over authorizationService
\* ------------------------------------------------------------------------
NoFail == [call |-> 0, kind |-> "ok"]

\* the engine failures a service call is run against: none, or one of the
\* first two engine calls of its synchronisation
ServiceFailAts == {NoFail} \cup [call : 1..2, kind : {"engine_err", "save_err"}]

\* the users row with this email before a call, or NoUser
RowOf(email) == IF IdByEmail(email) = 0 THEN NoUser ELSE users[IdByEmail(email)]

\* authorizationService.AddRoleForUser: the engine's own call, which
\* answers (false, nil) for a tuple that is present; there is no SavePolicy
AuthzAddRoleForUser(g, userID, role, io) ==
    IF g[<<UserKey(userID), role>>] > 0
    THEN [grouping |-> g, err |-> "nil", io |-> FALSE]
    ELSE IF io = "engine_err"
    THEN [grouping |-> g, err |-> "engine error", io |-> TRUE]
    ELSE [grouping |-> [g EXCEPT ![<<UserKey(userID), role>>] = @ + 1],
          err |-> "nil", io |-> FALSE]

\* authorizationService.DeleteRoleForUser
AuthzDeleteRoleForUser(g, userID, role, io) ==
    IF g[<<UserKey(userID), role>>] = 0
    THEN [grouping |-> g, err |-> "nil", io |-> FALSE]
    ELSE IF io = "engine_err"
    THEN [grouping |-> g, err |-> "engine error", io |-> TRUE]
    ELSE [grouping |-> [g EXCEPT ![<<UserKey(userID), role>>] = 0],
          err |-> "nil", io |-> FALSE]

\* one engine call of authorizationService.SyncUserPermissions
AuthzSyncStep(p, g, io, order) ==
    CASE p.pc = "read" ->
            IF io = "engine_err"
            THEN [p |-> Return(p, "engine error"), grouping |-> g, io |-> TRUE]
            ELSE [p |-> Advance([p EXCEPT !.pc = "delete", !.existing = order]),
                  grouping |-> g, io |-> FALSE]
      [] p.pc = "delete" ->
            LET r == AuthzDeleteRoleForUser(g, p.user.ID, Head(p.existing), io) IN
            IF r.err # "nil"
            THEN [p |-> Return(p, r.err), grouping |-> r.grouping, io |-> r.io]
            ELSE [p |-> Advance([p EXCEPT !.existing = Tail(@)]),
                  grouping |-> r.grouping, io |-> FALSE]
      [] p.pc = "add" ->
            LET r == AuthzAddRoleForUser(g, p.user.ID, p.user.Roles[p.i].Name, io) IN
            IF r.err # "nil"
            THEN [p |-> Return(p, r.err), grouping |-> r.grouping, io |-> r.io]
            ELSE [p |-> Advance([p EXCEPT !.i = @ + 1]),
                  grouping |-> r.grouping, io |-> FALSE]
      [] OTHER -> [p |-> p, grouping |-> g, io |-> FALSE]

RECURSIVE RunAuthzSync(_, _, _, _, _, _)
RunAuthzSync(p, g, n, failAt, order, failed) ==
    IF p.pc = "done" THEN [err |-> p.err, grouping |-> g, io |-> failed]
    ELSE LET io == IF n = failAt.call THEN failAt.kind ELSE "ok"
             s == AuthzSyncStep(p, g, io, order)
         IN  RunAuthzSync(s.p, s.grouping, n + 1, failAt, order, failed \/ s.io)

\* authorizationService.SyncUserPermissions from call to return
SyncUserPermissions(user, g, failAt, order) ==
    RunAuthzSync(SyncProc(user), g, 1, failAt, order, FALSE)

\* the orders in which the engine can list the roles of the user's key
AuthzListingOrders(email) ==
    IF IdByEmail(email) = 0 THEN {<<>>}
    ELSE Orderings(GetRolesForUser(grouping, UserKey(IdByEmail(email))))

\* the orders in which ranging over permissionMap can list the names
PermissionOrders(email) ==
    IF IdByEmail(email) = 0 THEN {<<>>}
    ELSE Orderings(PermissionNameSet(GetByIDWithRoles(IdByEmail(email))))

\* authenticationService.Login
AuthnLogin(email, passwordOK, failAt, order, permissions) ==
    LET user == GetByIDWithRoles(IdByEmail(email)) IN
    IF user = Nil THEN Unchanged("ErrInvalidCredentials")
    ELSE IF ~user.Active THEN Unchanged("ErrUserNotActive")
    ELSE IF ~passwordOK THEN Unchanged("ErrInvalidCredentials")
    ELSE LET t == JwtGenerateToken(user.ID, user.Email,
                                   [i \in DOMAIN user.Roles |-> user.Roles[i].Name],
                                   permissions, now)
             r == SyncUserPermissions(user, grouping, failAt, order) IN
         IF r.err # "nil"
         THEN [users |-> users, grouping |-> r.grouping, err |-> r.err, io |-> r.io,
               token |-> NoToken, syncErr |-> r.err]
         ELSE [users |-> users, grouping |-> r.grouping, err |-> "nil", io |-> r.io,
               token |-> t.token, syncErr |-> r.err]

\* userRepository.Create of the user authenticationService.Register builds
CreateBareRow(email) ==
    [users EXCEPT ![NextID] = [exists |-> TRUE, email |-> email,
                               active |-> TRUE, roles |-> <<>>]]

\* authenticationService.Register
AuthnRegister(email) ==
    IF IdByEmail(email) # 0 THEN Unchanged("ErrEmailAlreadyExists")
    ELSE IF EmailTaken(email) THEN Unchanged("duplicate key value")
    ELSE [users |-> CreateBareRow(email), grouping |-> grouping, err |-> "nil",
          io |-> FALSE, token |-> NoToken, syncErr |-> "none"]

\* AuthHandler.Login: the status of the response
LoginStatus(err) ==
    IF err = "nil" THEN 200 ELSE IF err = "ErrUserInactive" THEN 403 ELSE 401

\* AuthHandler.Register: the status of the response
RegisterStatus(err) ==
    IF err = "nil" THEN 201 ELSE IF err = "ErrEmailAlreadyExists" THEN 409 ELSE 400

\* the outcome of a service call becomes the next state; again records that
\* the call before it was the same call and succeeded. Requests are served
\* one after the other: none is in flight when the call returns
Serve(op, args, r, status) ==
    /\ users' = r.users
    /\ grouping' = r.grouping
    /\ ioFailed' = (ioFailed \/ r.io)
    /\ eres' = [op |-> op, args |-> args, err |-> r.err, result |-> FALSE,
                token |-> r.token, status |-> status, syncErr |-> r.syncErr,
                again |-> (eres.op = op /\ eres.args = args /\ eres.err = "nil")]
    /\ tres' = Idle
    /\ ctx' = NoRequest
    /\ UNCHANGED <<roleTable, rolePermTable, now, cfg, held, issuedTo, policy, sync>>

HandleLogin(email, passwordOK, failAt, order) ==
    LET r == Login(email, passwordOK, failAt, order) IN
    Serve("Login", [email |-> email, passwordOK |-> passwordOK], r,
          LoginStatus(r.err))

DoAuthnLogin(email, passwordOK, failAt, order, permissions) ==
    Serve("AuthnLogin", [email |-> email, passwordOK |-> passwordOK],
          AuthnLogin(email, passwordOK, failAt, order, permissions), 0)

HandleRegister(email, failAt, order) ==
    LET r == Register(email, failAt, order) IN
    /\ FreeIDs # {} \/ IdByEmail(email) # 0
    /\ Serve("Register", [email |-> email], r, RegisterStatus(r.err))

DoAuthnRegister(email) ==
    /\ FreeIDs # {} \/ IdByEmail(email) # 0
    /\ Serve("AuthnRegister", [email |-> email], AuthnRegister(email), 0)

UseCaseCreateUser(email, failAt, order) ==
    /\ FreeIDs # {} \/ IdByEmail(email) # 0
    /\ Serve("CreateUser", [email |-> email],
             CreateUser(email, failAt, order), 0)

\* userRepository.DeactivateUser
DeactivateUser(id) ==
    /\ users[id].exists
    /\ users[id].active
    /\ users' = [users EXCEPT ![id].active = FALSE]
    /\ tres' = Idle
    /\ eres' = EIdle
    /\ UNCHANGED <<roleTable, rolePermTable, ctx, now, cfg, held, issuedTo, policy, grouping, sync, ioFailed>>

\* userRepository.Delete: the row is soft-deleted
DeleteUserRow(id) ==
    /\ users[id].exists
    /\ users' = [users EXCEPT ![id] = Deleted(users[id].email)]
    /\ tres' = Idle
    /\ eres' = EIdle
    /\ UNCHANGED <<roleTable, rolePermTable, ctx, now, cfg, held, issuedTo, policy, grouping, sync, ioFailed>>

InitService ==
    /\ now = 0
    /\ held = NoToken
    /\ issuedTo = Nil
    /\ tres = Idle
    /\ ioFailed = FALSE
    /\ roleTable \in {RoleNames, RoleNames \ {"employee"}}
    /\ rolePermTable = SeededRolePermissions
    /\ ctx = NoRequest
    /\ cfg = [tokenExpiration |-> MaxExpiration, refreshDuration |-> MaxWindow]
    /\ users \in {[id \in UserIDs |->
                     IF id = 1
                     THEN [exists |-> TRUE, email |-> "alice@example.com",
                           active |-> a, roles |-> rl]
                     ELSE NoUser] : a \in BOOLEAN,
                                    rl \in {l \in RoleLists : Range(l) \subseteq roleTable}}
    /\ policy = NoRules
    /\ grouping = NoGroupings
    /\ eres = EIdle
    /\ sync = <<>>

\* a call that returns before its synchronisation (a login with a wrong
\* password, a registration of an email that has a row) has no engine call
\* that can fail
ReachedFailAts(reached) == IF reached THEN ServiceFailAts ELSE {NoFail}

NextService ==
    \/ \E email \in Emails, passwordOK \in BOOLEAN :
          \E failAt \in ReachedFailAts(passwordOK), order \in ListingOrders(email) :
             HandleLogin(email, passwordOK, failAt, order)
    \* authorizationService calls no SavePolicy, so its engine calls fail in
    \* one way; authenticationService.Login ranges over permissionMap after
    \* the synchronisation has returned without error, so with a failing
    \* engine call one order of the permissions stands for all
    \/ \E email \in Emails, passwordOK \in BOOLEAN :
          \E failAt \in {f \in ReachedFailAts(passwordOK) : f.kind # "save_err"},
             order \in AuthzListingOrders(email) :
             \E permissions \in IF failAt = NoFail
                                THEN PermissionOrders(email)
                                ELSE {CHOOSE o \in PermissionOrders(email) : TRUE} :
                DoAuthnLogin(email, passwordOK, failAt, order, permissions)
    \/ \E email \in Emails :
          \E failAt \in ReachedFailAts(IdByEmail(email) = 0), order \in ListingOrders(email) :
             HandleRegister(email, failAt, order)
    \/ \E email \in Emails : DoAuthnRegister(email)
    \/ \E email \in Emails :
          \E failAt \in ReachedFailAts(IdByEmail(email) = 0), order \in ListingOrders(email) :
             UseCaseCreateUser(email, failAt, order)
    \/ \E id \in UserIDs : DeactivateUser(id)
    \/ \E id \in UserIDs : DeleteUserRow(id)

SpecService == InitService /\ [][NextService]_vars

\* ------------------------------------------------------------------------
\* Token refresh: AuthHandler over AuthService.RefreshToken, the domain
\* authenticationService.RefreshToken, and RefreshTokenMiddleware
\* ------------------------------------------------------------------------
\* AuthService.RefreshToken; ValidateToken returns nil claims with
\* ErrExpiredToken, and reading claims.UserID through nil panics
SvcRefreshToken(tok, t) ==
    LET v == ValidateToken(tok, t) IN
    IF v.err # "nil" /\ v.err # "ErrExpiredToken"
    THEN [token |-> NoToken, err |-> "invalid refresh token"]
    ELSE IF v.claims = Nil
    THEN [token |-> NoToken, err |-> "panic: nil pointer dereference"]
    ELSE LET user == GetByIDWithRoles(v.claims.UserID) IN
         IF user = Nil THEN [token |-> NoToken, err |-> "ErrUserNotFound"]
         ELSE IF ~user.Active THEN [token |-> NoToken, err |-> "ErrUserInactive"]
         ELSE GenerateToken(user, t)

\* authenticationService.RefreshToken
AuthnRefreshToken(tok, t) == JwtRefreshToken(tok, t)

\* RefreshTokenMiddleware: the claims ValidateToken returned go to
\* TokenService.RefreshToken
RefreshTokenMiddleware(tok, t) ==
    LET v == ValidateToken(tok, t) IN
    IF v.err # "nil" /\ v.err # "ErrExpiredToken"
    THEN [token |-> NoToken, err |-> "Invalid refresh token"]
    ELSE LET r == RefreshToken(v.claims, t) IN
         IF r.err # "nil" THEN [token |-> NoToken, err |-> "Failed to refresh token"]
         ELSE r

\* AuthHandler.RefreshToken: the status of the response; a panic is turned
\* into a 500 by the recover middleware
RefreshStatus(err) ==
    IF err = "nil" THEN 200
    ELSE IF err = "panic: nil pointer dereference" THEN 500
    ELSE 401

\* RefreshTokenMiddleware: the status of the response
MiddlewareStatus(err) ==
    IF err = "nil" THEN 200
    ELSE IF err = "Failed to refresh token" THEN 500
    ELSE 401

\* the outcome of a refresh of the presented token becomes the next state
Respond(op, tok, r, status) ==
    /\ eres' = [op |-> op, args |-> [token |-> tok], at |-> now, err |-> r.err,
                result |-> FALSE, token |-> r.token, status |-> status]
    /\ tres' = Idle
    /\ UNCHANGED <<roleTable, rolePermTable, ctx, now, cfg, users, held, issuedTo, policy,
                   grouping, sync, ioFailed>>

HandleRefreshToken ==
    LET r == SvcRefreshToken(held, now) IN
    /\ held # NoToken
    /\ Respond("SvcRefreshToken", held, r, RefreshStatus(r.err))

DoAuthnRefreshToken ==
    /\ held # NoToken
    /\ Respond("AuthnRefreshToken", held, AuthnRefreshToken(held, now), 0)

DoRefreshTokenMiddleware ==
    LET r == RefreshTokenMiddleware(held, now) IN
    /\ held # NoToken
    /\ Respond("RefreshTokenMiddleware", held, r, MiddlewareStatus(r.err))

\* the client keeps the token of the last response
ClientKeeps ==
    /\ eres.op # "idle"
    /\ eres.token # NoToken
    /\ held' = eres.token
    /\ issuedTo' = Nil
    /\ eres' = EIdle
    /\ tres' = Idle
    /\ ctx' = NoRequest
    /\ UNCHANGED <<roleTable, rolePermTable, now, cfg, users, policy, grouping, sync, ioFailed>>

\* time.Now() advances between two requests
TickBetweenRequests ==
    /\ now < MaxTime
    /\ now' = now + 1
    /\ eres' = EIdle
    /\ tres' = Idle
    /\ ctx' = NoRequest
    /\ UNCHANGED <<roleTable, rolePermTable, cfg, users, held, issuedTo, policy, grouping, sync, ioFailed>>

InitRefresh ==
    /\ InitCommon
    /\ cfg = [tokenExpiration |-> TicksPerSecond, refreshDuration |-> MaxWindow]
    /\ InitStore
    /\ policy = NoRules
    /\ grouping = NoGroupings
    /\ eres = EIdle
    /\ sync = <<>>

NextRefresh ==
    \/ TickBetweenRequests
    \/ \E email \in Emails, passwordOK \in BOOLEAN :
          \E order \in ListingOrders(email) : HandleLogin(email, passwordOK, NoFail, order)
    \/ ClientKeeps
    \/ HandleRefreshToken
    \/ DoAuthnRefreshToken
    \/ DoRefreshTokenMiddleware
    \/ \E id \in UserIDs, role \in RoleNames : StoreAssignRole(id, role)
    \/ \E id \in UserIDs, role \in RoleNames : StoreRemoveRole(id, role)
    \/ \E id \in UserIDs : DeactivateUser(id)
    \/ \E id \in UserIDs : DeleteUserRow(id)
    \/ TamperExpiry

SpecRefresh == InitRefresh /\ [][NextRefresh]_vars

\* ------------------------------------------------------------------------
\* Requests: AuthMiddleware and the gates RequirePermission, RequireRole,
\* RequireAnyRole; RoleUseCase and the default policies
\* ------------------------------------------------------------------------
\* an Authorization header: scheme, then a blank (or none), then the
\* credentials (or none); the empty header has none of them
EmptyHeader == [scheme |-> "", space |-> FALSE, credentials |-> NoToken]

\* the token with its expiry pushed back under the old signature
Forged(tok) == [tok EXCEPT !.claims.ExpiresAt = @ + TicksPerSecond]

\* the headers a client holding a token can send
Headers ==
    [scheme : {"", "Bearer", "bearer", "Basic"}, space : BOOLEAN,
     credentials : {NoToken, held} \cup (IF Genuine(held) THEN {Forged(held)} ELSE {})]

\* strings.HasPrefix(authHeader, "Bearer ")
HasBearerPrefix(header) == header.scheme = "Bearer" /\ header.space

\* jwt.ExtractTokenFromBearer: what follows the seven characters of the
\* prefix when the header is longer than they are
ExtractTokenFromBearer(header) ==
    IF HasBearerPrefix(header) /\ header.credentials # NoToken
    THEN header.credentials
    ELSE NoToken

\* the Locals AuthMiddleware sets
LocalsOf(claims) ==
    [user_id |-> claims.UserID, user_email |-> claims.Email,
     user_roles |-> claims.Roles, user_permissions |-> claims.Permissions]

Reject(status, error, validated) ==
    [status |-> status, error |-> error, locals |-> Nil, next |-> FALSE,
     validated |-> validated]

\* variant: a request without Authorization header is passed on unauthenticated
AuthMiddlewareOptional(header, t) ==
    IF header = EmptyHeader
    THEN [status |-> 0, error |-> "", locals |-> Nil, next |-> TRUE, validated |-> FALSE]
    ELSE IF ~HasBearerPrefix(header) THEN Reject(401, "Bearer token is required", FALSE)
    ELSE IF ExtractTokenFromBearer(header) = NoToken
    THEN Reject(401, "Invalid token format", FALSE)
    ELSE LET v == ValidateToken(ExtractTokenFromBearer(header), t) IN
         IF v.err = "ErrExpiredToken" THEN Reject(401, "Token has expired", TRUE)
         ELSE IF v.err # "nil" THEN Reject(401, "Invalid token", TRUE)
         ELSE [status |-> 0, error |-> "", locals |-> LocalsOf(v.claims), next |-> TRUE,
               validated |-> TRUE]

\* AuthMiddleware
AuthMiddleware(header, t) ==
    IF header = EmptyHeader THEN Reject(401, "Authorization header is required", FALSE)
    ELSE IF ~HasBearerPrefix(header) THEN Reject(401, "Bearer token is required", FALSE)
    ELSE IF ExtractTokenFromBearer(header) = NoToken
    THEN Reject(401, "Invalid token format", FALSE)
    ELSE LET v == ValidateToken(ExtractTokenFromBearer(header), t) IN
         IF v.err = "ErrExpiredToken" THEN Reject(401, "Token has expired", TRUE)
         ELSE IF v.err # "nil" THEN Reject(401, "Invalid token", TRUE)
         ELSE [status |-> 0, error |-> "", locals |-> LocalsOf(v.claims), next |-> TRUE,
               validated |-> TRUE]

\* c.Locals("user_roles").([]string) with its ok flag
HasRoles(locals) == locals # Nil /\ locals.user_roles # <<>>

Deny(error) == [status |-> 403, error |-> error, next |-> FALSE]
Allow == [status |-> 0, error |-> "", next |-> TRUE]

\* PolicyManager.CheckPermissionWithRoles
CheckPermissionWithRoles(roles, resource, action) == EnforceWithRoles(roles, resource, action)

\* variant: the permission names frozen into the token decide
RequirePermissionFromClaims(locals, resource, action) ==
    IF ~HasRoles(locals) THEN Deny("Access denied: No roles assigned")
    ELSE IF ~(\E i \in PermissionIDs :
                 /\ PermissionRows[i].Resource = resource
                 /\ PermissionRows[i].Action = action
                 /\ PermissionRows[i].Name \in Range(locals.user_permissions))
    THEN Deny("Access denied: Insufficient permissions")
    ELSE Allow

\* RequirePermission(policyManager, resource, action)
RequirePermission(locals, resource, action) ==
    IF ~HasRoles(locals) THEN Deny("Access denied: No roles assigned")
    ELSE IF ~CheckPermissionWithRoles(locals.user_roles, resource, action)
    THEN Deny("Access denied: Insufficient permissions")
    ELSE Allow

\* variant: the role is accepted when the policy engine grants it a rule
RequireRoleEnforced(locals, roleName) ==
    IF ~HasRoles(locals) THEN Deny("Access denied: No roles assigned")
    ELSE IF ~(\E i \in DOMAIN locals.user_roles, o \in Objects, a \in Actions :
                 Enforce(locals.user_roles[i], o, a))
    THEN Deny("Access denied: Required role not found")
    ELSE Allow

\* RequireRole(roleName)
RequireRole(locals, roleName) ==
    IF ~HasRoles(locals) THEN Deny("Access denied: No roles assigned")
    ELSE IF ~(\E i \in DOMAIN locals.user_roles : locals.user_roles[i] = roleName)
    THEN Deny("Access denied: Required role not found")
    ELSE Allow

\* RequireAnyRole(roleNames...)
RequireAnyRole(locals, roleNames) ==
    IF ~HasRoles(locals) THEN Deny("Access denied: No roles assigned")
    ELSE IF ~(\E i \in DOMAIN locals.user_roles, j \in DOMAIN roleNames :
                 locals.user_roles[i] = roleNames[j])
    THEN Deny("Access denied: None of the required roles found")
    ELSE Allow

\* the permission lists of InitializeDefaultPolicies
employeePermissions ==
    << <<"employees", "read">>, <<"employees", "create">>, <<"employees", "update">>,
       <<"employees", "delete">> >>
userPermissions ==
    << <<"users", "read">>, <<"users", "create">>, <<"users", "update">>,
       <<"users", "delete">>, <<"users", "assign_role">>, <<"users", "remove_role">> >>
rolePermissions ==
    << <<"roles", "read">>, <<"roles", "create">>, <<"roles", "update">>,
       <<"roles", "delete">> >>
\* variant: admin is given the deletion of roles too
adminPermissionsWithRoleDeletion ==
    (employeePermissions \o SubSeq(userPermissions, 1, 4)) \o rolePermissions

adminPermissions ==
    (employeePermissions \o SubSeq(userPermissions, 1, 4)) \o SubSeq(rolePermissions, 1, 3)
hrManagerPermissions ==
    (employeePermissions \o SubSeq(userPermissions, 1, 3)) \o << <<"roles", "read">> >>

\* the calls of InitializeDefaultPolicies, in the order of the code: the
\* rules (role, resource, action) it hands to AddPolicy
DefaultCalls ==
    LET For(role, perms) == [i \in DOMAIN perms |-> <<role, perms[i][1], perms[i][2]>>] IN
    For("super_admin", (employeePermissions \o userPermissions) \o rolePermissions)
      \o For("admin", adminPermissions)
      \o For("hr_manager", hrManagerPermissions)
      \o For("hr_specialist", employeePermissions)
      \o << <<"employee", "employees", "read">> >>

DefaultRules == Range(DefaultCalls)

\* PolicyManager.InitializeDefaultPolicies: one AddPolicy per rule, its
\* error dropped; ios gives the outcome of each call. An engine that knows
\* fewer subjects and resources takes the calls for the rules it knows.
InitializeDefaultPolicies(ios) ==
    [policy |-> [r \in DOMAIN policy |-> IF r \in DefaultRules
                                        THEN AddPolicy(r, ios[r]).policy[r]
                                        ELSE policy[r]],
     io |-> \E r \in DefaultRules \cap DOMAIN policy : AddPolicy(r, ios[r]).io]

\* the permissions whose resource the engine of the model knows
EmployeePermissionIDs == {i \in PermissionIDs : PermissionRows[i].Resource \in Objects}

RuleOf(role, permissionID) ==
    <<role, PermissionRows[permissionID].Resource, PermissionRows[permissionID].Action>>

\* RoleUseCase.AssignPermissionToRole: the row is written, then the rule
\* is granted in the engine
UcAssignPermissionToRole(role, permissionID, io) ==
    IF role \notin roleTable \/ permissionID \notin PermissionIDs
    THEN [table |-> rolePermTable, policy |-> policy, err |-> "record not found",
          io |-> FALSE]
    ELSE IF <<role, permissionID>> \in rolePermTable
    THEN [table |-> rolePermTable, policy |-> policy,
          err |-> "role already has this permission", io |-> FALSE]
    ELSE LET r == AddPolicy(RuleOf(role, permissionID), io) IN
         [table |-> rolePermTable \cup {<<role, permissionID>>}, policy |-> r.policy,
          err |-> r.err, io |-> r.io]

\* RoleUseCase.RemovePermissionFromRole: the row is deleted, then the rule
\* is revoked in the engine
UcRemovePermissionFromRole(role, permissionID, io) ==
    IF role \notin roleTable \/ permissionID \notin PermissionIDs
    THEN [table |-> rolePermTable, policy |-> policy, err |-> "record not found",
          io |-> FALSE]
    ELSE LET r == RemovePolicy(RuleOf(role, permissionID), io) IN
         [table |-> rolePermTable \ {<<role, permissionID>>}, policy |-> r.policy,
          err |-> r.err, io |-> r.io]

\* a gate has run on the request in flight
Gate(op, args, r) ==
    /\ ctx' = [locals |-> ctx.locals, status |-> r.status,
               gate |-> [op |-> op, args |-> args, next |-> r.next, error |-> r.error]]
    /\ UNCHANGED <<roleTable, rolePermTable, now, cfg, users, held, issuedTo, tres, policy,
                   grouping, eres, sync, ioFailed>>

\* a request arrives and AuthMiddleware runs on it
DoAuthMiddleware(header) ==
    LET r == AuthMiddleware(header, now) IN
    /\ ctx' = [locals |-> r.locals, status |-> r.status,
               gate |-> [op |-> "AuthMiddleware", args |-> header, next |-> r.next,
                         error |-> r.error, validated |-> r.validated]]
    /\ UNCHANGED <<roleTable, rolePermTable, now, cfg, users, held, issuedTo, tres, policy,
                   grouping, eres, sync, ioFailed>>

\* the request in flight, not answered yet, comes to the next gate of its
\* route; a route may have no AuthMiddleware before the gate
DoRequirePermission(resource, action) ==
    /\ ctx.status = 0
    /\ Gate("RequirePermission", <<resource, action>>,
            RequirePermission(ctx.locals, resource, action))

DoRequireRole(roleName) ==
    /\ ctx.status = 0
    /\ Gate("RequireRole", roleName, RequireRole(ctx.locals, roleName))

DoRequireAnyRole(roleNames) ==
    /\ ctx.status = 0
    /\ Gate("RequireAnyRole", roleNames, RequireAnyRole(ctx.locals, roleNames))

\* an administrative call between two requests
Administer(e, r) ==
    /\ rolePermTable' = r.table
    /\ policy' = r.policy
    /\ ioFailed' = (ioFailed \/ r.io)
    /\ eres' = e
    /\ tres' = Idle
    /\ ctx' = NoRequest
    /\ UNCHANGED <<roleTable, now, cfg, users, held, issuedTo, grouping, sync>>

DoInitializeDefaultPolicies(ios) ==
    LET r == InitializeDefaultPolicies(ios) IN
    Administer(EIdle, [table |-> rolePermTable, policy |-> r.policy, err |-> "nil", io |-> r.io])

DoAssignPermissionToRole(role, permissionID, io) ==
    Administer(EIdle, UcAssignPermissionToRole(role, permissionID, io))

\* the answer of a revocation stays on record while requests are served
DoRemovePermissionFromRole(role, permissionID, io) ==
    LET r == UcRemovePermissionFromRole(role, permissionID, io) IN
    Administer([op |-> "RemovePermissionFromRole", args |-> <<role, permissionID>>,
                err |-> r.err, result |-> FALSE, token |-> NoToken], r)

InitRequest ==
    /\ InitCommon
    /\ cfg = [tokenExpiration |-> TicksPerSecond, refreshDuration |-> MaxWindow]
    /\ InitStore
    /\ policy = NoRules
    /\ grouping = NoGroupings
    /\ eres = EIdle
    /\ sync = <<>>

\* permission checks on the requests of logged-in users while the role
\* hr_manager is given and denied the permissions on employees
NextRequest ==
    \/ \E email \in Emails, passwordOK \in BOOLEAN :
          \E order \in ListingOrders(email) : HandleLogin(email, passwordOK, NoFail, order)
    \/ ClientKeeps
    \/ \E ios \in [DefaultRules -> {"ok"}] : DoInitializeDefaultPolicies(ios)
    \/ \E permissionID \in EmployeePermissionIDs, io \in IOOutcomes :
          DoAssignPermissionToRole("hr_manager", permissionID, io)
    \/ \E permissionID \in EmployeePermissionIDs, io \in IOOutcomes :
          DoRemovePermissionFromRole("hr_manager", permissionID, io)
    \/ DoAuthMiddleware([scheme |-> "Bearer", space |-> TRUE, credentials |-> held])
    \/ \E action \in Actions : DoRequirePermission("employees", action)

SpecRequest == InitRequest /\ [][NextRequest]_vars

\* authentication and role gates on requests with every kind of header,
\* over time and under different engine states
NextGate ==
    \/ TickBetweenRequests
    \/ \E email \in Emails, passwordOK \in BOOLEAN :
          \E order \in ListingOrders(email) : HandleLogin(email, passwordOK, NoFail, order)
    \/ ClientKeeps
    \/ \E ios \in [DefaultRules -> {"ok"}] : DoInitializeDefaultPolicies(ios)
    \/ \E header \in Headers : DoAuthMiddleware(header)
    \/ \E roleName \in RoleInputs : DoRequireRole(roleName)
    \/ \E roleNames \in UNION {[1..n -> RoleInputs] : n \in 0..2} : DoRequireAnyRole(roleNames)

SpecGate == InitRequest /\ [][NextGate]_vars

\* ------------------------------------------------------------------------
\* Default policies and the routes of SetupRoutes, on an engine that knows
\* the five canonical roles and every (resource, action) pair in use
\* ------------------------------------------------------------------------
DefaultRoleNames == {DefaultCalls[i][1] : i \in DOMAIN DefaultCalls}

\* the permissionMiddleware(resource, action) gates SetupRoutes registers
RouteGates ==
    {<<"users", a>> : a \in {"create", "list", "read", "update", "delete"}}
      \cup {<<"roles", a>> : a \in {"assign", "read", "list", "create", "update", "delete"}}
      \cup {<<"permissions", a>> : a \in {"read", "list", "create", "update", "delete"}}

KnownRules ==
    {<<role, pair[1], pair[2]>> :
        role \in DefaultRoleNames,
        pair \in {<<r[2], r[3]>> : r \in DefaultRules} \cup RouteGates}

\* the outcomes of the AddPolicy calls of one run: all succeed, or the
\* first, the last or the first call for admin fails
DefaultOutcomes ==
    {[r \in DefaultRules |-> "ok"]}
      \cup {[r \in DefaultRules |-> IF r = f THEN kind ELSE "ok"] :
               f \in {DefaultCalls[1], <<"admin", "employees", "read">>,
                      DefaultCalls[Len(DefaultCalls)]},
               kind \in {"engine_err", "save_err"}}

\* InitializeDefaultPolicies from call to return nil
DoInitializeAll(ios) ==
    LET r == InitializeDefaultPolicies(ios) IN
    /\ policy' = r.policy
    /\ ioFailed' = (ioFailed \/ r.io)
    /\ eres' = [op |-> "InitializeDefaultPolicies", args |-> <<>>, err |-> "nil",
                result |-> FALSE, io |-> r.io,
                fromEmpty |-> (\A rule \in DOMAIN policy : policy[rule] = 0),
                again |-> (eres.op = "InitializeDefaultPolicies"),
                firstIo |-> (eres.op = "InitializeDefaultPolicies" /\ eres.io)]
    /\ tres' = Idle
    /\ ctx' = NoRequest
    /\ UNCHANGED <<roleTable, rolePermTable, now, cfg, users, held, issuedTo, grouping, sync>>

InitDefaults ==
    /\ now = 0
    /\ held = NoToken
    /\ issuedTo = Nil
    /\ tres = Idle
    /\ ioFailed = FALSE
    /\ roleTable = DefaultRoleNames
    /\ rolePermTable = {}
    /\ ctx = NoRequest
    /\ cfg = [tokenExpiration |-> MaxExpiration, refreshDuration |-> MaxWindow]
    /\ users = [id \in UserIDs |->
                  IF id = 1
                  THEN [exists |-> TRUE, email |-> "alice@example.com",
                        active |-> TRUE, roles |-> <<"super_admin">>]
                  ELSE NoUser]
    /\ policy = [r \in KnownRules |-> 0]
    /\ grouping = NoGroupings
    /\ eres = EIdle
    /\ sync = <<>>

\* an administrator grants one rule to an empty engine or revokes one from
\* an engine that has every default rule; the defaults are (re)applied
NextDefaults ==
    \/ \E rule \in KnownRules :
          /\ \A r \in KnownRules : policy[r] = 0
          /\ DoAddPolicy(rule, "ok")
    \/ \E rule \in KnownRules :
          /\ \A r \in DefaultRules : policy[r] > 0
          /\ policy[rule] > 0
          /\ DoRemovePolicy(rule, "ok")
    \/ \E ios \in DefaultOutcomes : DoInitializeAll(ios)

SpecDefaults == InitDefaults /\ [][NextDefaults]_vars

\* the defaults are applied; the super administrator's token is issued and
\* presented at the gates of the routes, also after an administrator has
\* revoked a rule
NextRoutes ==
    \/ DoInitializeAll([r \in DefaultRules |-> "ok"])
    \/ \E rule \in DefaultRules :
          /\ \A r \in DefaultRules : policy[r] > 0
          /\ DoRemovePolicy(rule, "ok")
    \/ DoGenerateToken(1)
    \/ /\ held # NoToken
       /\ DoAuthMiddleware([scheme |-> "Bearer", space |-> TRUE, credentials |-> held])
    \/ \E gate \in RouteGates :
          /\ ctx.gate.op = "AuthMiddleware"
          /\ DoRequirePermission(gate[1], gate[2])

SpecRoutes == InitDefaults /\ [][NextRoutes]_vars

\* ------------------------------------------------------------------------
\* Properties of the token services
\* ------------------------------------------------------------------------
\* C1: a token generated for a user and validated before its expiry with the
\* same key is accepted; the returned claims name exactly the user's roles,
\* and their permission list is the union of the roles' permissions with no
\* name twice.
C1_RoundTrip ==
    (tres.op = "ValidateToken" /\ issuedTo # Nil /\ tres.at < tres.input.claims.ExpiresAt)
        => /\ tres.err = "nil"
           /\ tres.claims # Nil
           /\ Range(tres.claims.Roles) = RoleNameSet(issuedTo)
           /\ Range(tres.claims.Permissions) = PermissionNameSet(issuedTo)
           /\ NoDuplicates(tres.claims.Permissions)

\* two roles that share a permission, validated in time
C1_Witness ==
    /\ tres.op = "ValidateToken" /\ issuedTo # Nil
    /\ tres.at < tres.input.claims.ExpiresAt
    /\ Len(issuedTo.Roles) = 2
    /\ Range(issuedTo.Roles[1].Permissions) \cap Range(issuedTo.Roles[2].Permissions) # {}
    /\ tres.err = "nil"

SignatureVerifies(tok) ==
    tok.alg = "HS256" /\ tok.sig = SignedString(tok.alg, tok.claims, SecretKey)

\* C2: ValidateToken answers ErrExpiredToken for a correctly signed token at
\* or after its expiry, ErrInvalidToken for a token whose signature does not
\* verify (expired or not), and returns no claims with any error.
C2_FailureClasses ==
    tres.op = "ValidateToken"
        => /\ (SignatureVerifies(tres.input) /\ tres.at >= tres.input.claims.ExpiresAt)
                => tres.err = "ErrExpiredToken"
           /\ ~SignatureVerifies(tres.input) => tres.err = "ErrInvalidToken"
           /\ tres.err # "nil" => tres.claims = Nil

\* a token that is both tampered with and past its expiry is presented
C2_Witness ==
    /\ tres.op = "ValidateToken"
    /\ ~SignatureVerifies(tres.input)
    /\ tres.at > tres.input.claims.ExpiresAt
    /\ tres.err = "ErrInvalidToken"

\* C3 (as claimed): TokenService.RefreshToken refuses claims whose remaining
\* life exceeds the refresh window and issues nothing; within the window it
\* succeeds with a strictly later expiry.
C3_RefreshWindow ==
    (tres.op = "RefreshToken" /\ tres.input # Nil)
        => IF tres.input.ExpiresAt - tres.at > cfg.refreshDuration
           THEN tres.err # "nil" /\ tres.token = NoToken
           ELSE /\ tres.err = "nil"
                /\ tres.token.claims.ExpiresAt > tres.input.ExpiresAt

RefreshOps == {"RefreshToken", "JwtRefreshToken"}

\* C4: a refreshed token carries the user id, email, roles and permissions
\* (and issuer, subject) of the claims given, whatever the store holds, and
\* the refresh step leaves the user store and the policy engine untouched.
C4_RefreshKeepsClaims ==
    /\ [](  (tres.op \in RefreshOps /\ tres.err = "nil")
            => /\ SignatureVerifies(tres.token)
               /\ \A f \in {"UserID", "Email", "Roles", "Permissions", "Issuer", "Subject"} :
                     tres.token.claims[f] = tres.input[f])
    /\ [][ (tres'.op \in RefreshOps /\ tres' # tres)
            => UNCHANGED <<users, policy, grouping>> ]_vars

\* a refresh succeeds while the store holds other roles than the claims
C4_Witness ==
    /\ tres.op = "RefreshToken" /\ tres.err = "nil"
    /\ users[tres.input.UserID].roles # tres.input.Roles
    /\ tres.token.claims.Roles = tres.input.Roles
    /\ tres.token.claims.ExpiresAt > tres.input.ExpiresAt

\* ------------------------------------------------------------------------
\* Properties of the policy engine wrapper
\* ------------------------------------------------------------------------
\* C5: EnforceWithRoles is true exactly when some role of the list satisfies
\* Enforce, whatever the order; false for the empty list; true for
\* [hr_manager], employees, read when that rule exists; false for an action
\* that no rule names.
C5_EnforceWithRoles ==
    eres.op = "EnforceWithRoles"
        => LET roles == eres.args[1]
               object == eres.args[2]
               action == eres.args[3] IN
           /\ eres.result = (\E i \in DOMAIN roles : Enforce(roles[i], object, action))
           /\ roles = <<>> => eres.result = FALSE
           /\ (/\ roles = <<"hr_manager">> /\ object = "employees" /\ action = "read"
               /\ policy[<<"hr_manager", "employees", "read">>] > 0) => eres.result = TRUE
           /\ (\A rule \in Rules : rule[2] = object /\ rule[3] = action => policy[rule] = 0)
                 => eres.result = FALSE

\* only the second role of the list is allowed, and the answer is true
C5_Witness ==
    /\ eres.op = "EnforceWithRoles"
    /\ Len(eres.args[1]) = 2
    /\ ~Enforce(eres.args[1][1], eres.args[2], eres.args[3])
    /\ Enforce(eres.args[1][2], eres.args[2], eres.args[3])
    /\ eres.result = TRUE

\* C6: AddPolicy / AddRoleForUser on something present and RemovePolicy /
\* DeleteRoleForUser on something absent return an error and leave the
\* rules and the g-tuples as they were.
C6_NotIdempotent ==
    [][ /\ (eres'.op = "AddPolicy" /\ policy[eres'.args] > 0)
            => (eres'.err = "policy already exists" /\ UNCHANGED <<policy, grouping>>)
        /\ (eres'.op = "RemovePolicy" /\ policy[eres'.args] = 0)
            => (eres'.err = "policy does not exist" /\ UNCHANGED <<policy, grouping>>)
        /\ (eres'.op = "AddRoleForUser" /\ grouping[eres'.args] > 0)
            => (eres'.err = "role assignment already exists" /\ UNCHANGED <<policy, grouping>>)
        /\ (eres'.op = "DeleteRoleForUser" /\ grouping[eres'.args] = 0)
            => (eres'.err = "role assignment does not exist" /\ UNCHANGED <<policy, grouping>>)
      ]_vars

\* a rule was added a second time and refused
C6_Witness ==
    /\ eres.op = "AddPolicy"
    /\ eres.err = "policy already exists"
    /\ policy[eres.args] = 1

\* ------------------------------------------------------------------------
\* Properties of SyncUserPolicies
\* ------------------------------------------------------------------------
EngineRoles(email) == GetRolesForUser(grouping, email)
NoDuplicateTuples == \A g \in Groupings : grouping[g] <= 1

\* C7: when an uninterrupted SyncUserPolicies(user) returns nil, the engine's
\* g-tuples for user.Email are exactly the role names of user.Roles.
C7_SyncReplaces ==
    (eres.op = "SyncUserPolicies" /\ eres.err = "nil")
        => /\ EngineRoles(eres.args.Email) = RoleNameSet(eres.args)
           /\ NoDuplicateTuples

\* a sync that had to remove a stale role and add a missing one
C7_Witness ==
    /\ eres.op = "SyncUserPolicies" /\ eres.err = "nil"
    /\ eres.result \ RoleNameSet(eres.args) # {}
    /\ RoleNameSet(eres.args) \ eres.result # {}
    /\ EngineRoles(eres.args.Email) = RoleNameSet(eres.args)

BothDone == \A p \in Procs : sync[p].pc = "done"
SyncUser == sync[1].user

\* C9: two interleaved executions for one user can end with a role of
\* user.Roles missing from the engine (reached by C9_Witness); this happens
\* only when one of the two returned an error, and no g-tuple is ever held
\* twice.
C9_RaceLosesRole ==
    /\ NoDuplicateTuples
    /\ (BothDone /\ \A p \in Procs : sync[p].err = "nil")
          => EngineRoles(SyncUser.Email) = RoleNameSet(SyncUser)

\* both executions have finished, no engine call failed on its storage, and
\* a role of user.Roles is missing from the engine
C9_Witness ==
    /\ BothDone
    /\ ~ioFailed
    /\ RoleNameSet(SyncUser) \ EngineRoles(SyncUser.Email) # {}

\* ------------------------------------------------------------------------
\* Consistency of the policy engine with the user-role table
\* ------------------------------------------------------------------------
EngineMatchesStore ==
    \A id \in UserIDs :
        users[id].exists => EngineRoles(users[id].email) = Range(users[id].roles)

LoginOps == {"Login", "AuthnLogin"}
InactiveErrors == {"ErrUserInactive", "ErrUserNotActive"}

\* C11: a Login for an existing user whose active flag is false fails with
\* the user-inactive error whether the password is right or wrong, returns no
\* token, does not run the synchronisation and leaves the engine as it was.
C11_InactiveLoginFails ==
    [][(/\ eres'.op \in LoginOps
        /\ RowOf(eres'.args.email) # NoUser
        /\ ~RowOf(eres'.args.email).active)
       => /\ eres'.err \in InactiveErrors
          /\ eres'.token = NoToken
          /\ eres'.syncErr = "none"
          /\ grouping' = grouping
          /\ policy' = policy]_vars

C11_Witness ==
    /\ eres.op = "Login"
    /\ eres.args.passwordOK
    /\ eres.err = "ErrUserInactive"
    /\ RowOf(eres.args.email) # NoUser
    /\ ~RowOf(eres.args.email).active

\* C12: AuthService.Login behind AuthHandler answers a Login for an email no
\* user has and a Login with a wrong password for an active user in one and
\* the same way: the error InvalidCredentials, status 401, no token, and no
\* change of the user table or the engine.
C12_SameFailure ==
    [][(/\ eres'.op = "Login"
        /\ \/ RowOf(eres'.args.email) = NoUser
           \/ RowOf(eres'.args.email).active /\ ~eres'.args.passwordOK)
       => /\ eres'.err = "ErrInvalidCredentials"
          /\ eres'.status = 401
          /\ eres'.token = NoToken
          /\ users' = users
          /\ grouping' = grouping]_vars

C12_Witness ==
    /\ eres.op = "Login"
    /\ RowOf(eres.args.email) # NoUser
    /\ RowOf(eres.args.email).active
    /\ ~eres.args.passwordOK
    /\ eres.err = "ErrInvalidCredentials"
    /\ eres.status = 401

\* C13: a Login of an active user with the right password succeeds and
\* returns the issued token whether the synchronisation succeeds or fails.
C13_LoginSurvivesSyncFailure ==
    [][(/\ eres'.op \in LoginOps
        /\ RowOf(eres'.args.email) # NoUser
        /\ RowOf(eres'.args.email).active
        /\ eres'.args.passwordOK)
       => /\ eres'.err = "nil"
          /\ eres'.token # NoToken]_vars

RegisterOps == {"Register", "AuthnRegister"}

\* the rows of the user table, soft-deleted ones included, with this email
RowsWith(email) == {id \in UserIDs : users[id] # NoUser /\ users[id].email = email}

\* C15: a Register of an email no row has (the default role being present)
\* succeeds and adds one row; a Register that directly follows a successful
\* Register of the same email fails with EmailAlreadyExists, returns no
\* token and leaves the user table and the engine as the first call left
\* them, so the table holds exactly one row for that email.
C15_SecondRegisterFails ==
    [][eres'.op \in RegisterOps
       => LET rowsAfter == {id \in UserIDs : /\ users'[id] # NoUser
                                             /\ users'[id].email = eres'.args.email}
          IN  /\ (RowsWith(eres'.args.email) = {} /\ "employee" \in roleTable)
                    => (eres'.err = "nil" /\ Cardinality(rowsAfter) = 1)
              /\ eres'.again
                    => /\ eres'.err = "ErrEmailAlreadyExists"
                       /\ eres'.token = NoToken
                       /\ users' = users
                       /\ grouping' = grouping
                       /\ policy' = policy
                       /\ Cardinality(rowsAfter) = 1]_vars

C15_Witness ==
    /\ eres.op = "Register"
    /\ eres.again
    /\ eres.err = "ErrEmailAlreadyExists"
    /\ Cardinality(RowsWith(eres.args.email)) = 1

\* C16: a user created by a successful Register is active and has the one
\* role employee, in the user table and in the claims of the returned token;
\* when no role named employee exists, Register fails, adds no row, returns
\* no token and changes nothing in the engine.
C16_RegisterDefaultRole ==
    [][eres'.op \in RegisterOps
       => /\ eres'.err = "nil"
                => \E id \in UserIDs :
                      /\ users'[id].exists
                      /\ users'[id].email = eres'.args.email
                      /\ users'[id].active
                      /\ users'[id].roles = <<"employee">>
                      /\ eres'.token # NoToken
                      /\ eres'.token.claims.UserID = id
                      /\ eres'.token.claims.Roles = <<"employee">>
          /\ "employee" \notin roleTable
                => /\ eres'.err # "nil"
                   /\ eres'.token = NoToken
                   /\ users' = users
                   /\ grouping' = grouping
                   /\ policy' = policy]_vars

\* ------------------------------------------------------------------------
\* Properties of token refresh
\* ------------------------------------------------------------------------
\* the refresh paths that call TokenService.ValidateToken
ValidatingRefreshOps == {"SvcRefreshToken", "RefreshTokenMiddleware"}
\* RefreshToken of the two authentication services
ServiceRefreshOps == {"SvcRefreshToken", "AuthnRefreshToken"}
InvalidRefreshErrors == {"invalid refresh token", "Invalid refresh token"}

\* the stored user a presented token names, or Nil
UserOf(tok) == IF Genuine(tok) THEN GetByIDWithRoles(tok.claims.UserID) ELSE Nil

\* C17: a refresh of a correctly signed token whose only defect is that it
\* has expired, for a user who exists and is active, completes and returns a
\* new token; a refresh of a token that fails validation for another reason
\* is rejected as an invalid refresh token (401) and returns no token.
C17_RefreshToleratesExpiry ==
    [][eres'.op \in ValidatingRefreshOps
       => LET tok == eres'.args.token
              perr == ParseWithClaims(tok, SecretKey, TRUE, eres'.at)
          IN  /\ (perr = "expired" /\ UserOf(tok) # Nil /\ UserOf(tok).Active)
                    => (eres'.err = "nil" /\ eres'.token # NoToken)
              /\ perr \notin {"ok", "expired"}
                    => /\ eres'.err \in InvalidRefreshErrors
                       /\ eres'.status = 401
                       /\ eres'.token = NoToken]_vars

\* C18: the token a service RefreshToken returns carries the roles and
\* permissions the user with the id of the old claims has in the store at
\* the time of the refresh; when that user is deactivated or gone the refresh
\* fails with UserInactive / UserNotFound and returns no token.
C18_RefreshReloadsUser ==
    [][(eres'.op \in ServiceRefreshOps /\ Genuine(eres'.args.token))
       => LET user == UserOf(eres'.args.token) IN
          /\ eres'.err = "nil"
                => /\ user # Nil
                   /\ Range(eres'.token.claims.Roles) = RoleNameSet(user)
                   /\ Range(eres'.token.claims.Permissions) = PermissionNameSet(user)
          /\ user = Nil
                => (eres'.err = "ErrUserNotFound" /\ eres'.token = NoToken)
          /\ (user # Nil /\ ~user.Active)
                => (eres'.err \in InactiveErrors /\ eres'.token = NoToken)]_vars

\* ------------------------------------------------------------------------
\* Properties of the request gates
\* ------------------------------------------------------------------------
\* the (resource, action) pairs the role_permissions table gives the roles
RelationalPairs(roles) ==
    {<<PermissionRows[i].Resource, PermissionRows[i].Action>> :
        i \in {j \in PermissionIDs : \E k \in DOMAIN roles : <<roles[k], j>> \in rolePermTable}}

\* C14: the token of a successful Login names the user's roles; when the
\* roles of an active user have (employees, read) and not (employees, delete)
\* in the role/permission tables, a request bearing that token passes
\* RequirePermission(employees, read) and is rejected with 403 by
\* RequirePermission(employees, delete).
C14_LoginThenPermission ==
    [][/\ (eres'.op = "Login" /\ eres'.err = "nil")
            => eres'.token.claims.Roles = RowOf(eres'.args.email).roles
       /\ (ctx'.gate.op = "RequirePermission" /\ ctx.locals # Nil)
            => LET id == ctx.locals.user_id IN
               (/\ users[id].exists
                /\ users[id].active
                /\ ctx.locals.user_roles = users[id].roles
                /\ <<"employees", "read">> \in RelationalPairs(users[id].roles)
                /\ <<"employees", "delete">> \notin RelationalPairs(users[id].roles))
               => /\ ctx'.gate.args = <<"employees", "read">> => ctx'.gate.next
                  /\ ctx'.gate.args = <<"employees", "delete">>
                        => (~ctx'.gate.next /\ ctx'.status = 403)]_vars

\* C19: AuthMiddleware passes a request on exactly when its Authorization
\* header starts with "Bearer " followed by a non-empty token that
\* ValidateToken accepts; every other request is answered 401, is not passed
\* on and gets no identity in its context, and for a missing or malformed
\* header ValidateToken is not called. An accepted request carries the
\* identity of the token's claims.
C19_AuthMiddlewareGate ==
    [][ctx'.gate.op = "AuthMiddleware"
          => LET h == ctx'.gate.args
                 wellFormed == h.scheme = "Bearer" /\ h.space /\ h.credentials # NoToken
                 accepted == wellFormed /\ ValidateToken(h.credentials, now).err = "nil"
             IN /\ ctx'.gate.next <=> accepted
                /\ ~accepted => (ctx'.status = 401 /\ ctx'.locals = Nil)
                /\ ~wellFormed => ~ctx'.gate.validated
                /\ accepted => /\ ctx'.status = 0
                               /\ ctx'.locals # Nil
                               /\ ctx'.locals.user_id = h.credentials.claims.UserID
                               /\ ctx'.locals.user_roles = h.credentials.claims.Roles]_vars

\* a well-formed header with a genuine token that has expired was rejected
\* with 401 after ValidateToken ran
C19_Witness ==
    /\ ctx.gate.op = "AuthMiddleware"
    /\ ctx.gate.args.scheme = "Bearer"
    /\ ctx.gate.args.space
    /\ ctx.gate.args.credentials # NoToken
    /\ Genuine(ctx.gate.args.credentials)
    /\ ctx.gate.validated
    /\ ~ctx.gate.next
    /\ ctx.status = 401
    /\ ctx.locals = Nil

\* C20: RequireRole and RequireAnyRole pass a request on exactly when one of
\* the required names is among the role names of the request context, and
\* answer 403 otherwise (always when the context has no roles); the outcome
\* is a function of the context roles and the required names alone, whatever
\* the rules and role tuples of the policy engine, which the gates leave as
\* they are.
C20_RoleGateByContextOnly ==
    [][ctx'.gate.op \in {"RequireRole", "RequireAnyRole"}
          => LET roles == IF ctx.locals = Nil THEN <<>> ELSE ctx.locals.user_roles
                 required == IF ctx'.gate.op = "RequireRole"
                             THEN {ctx'.gate.args}
                             ELSE {ctx'.gate.args[j] : j \in DOMAIN ctx'.gate.args}
                 member == \E i \in DOMAIN roles : roles[i] \in required
             IN /\ ctx'.gate.next <=> member
                /\ member => ctx'.status = 0
                /\ ~member => ctx'.status = 403
                /\ policy' = policy
                /\ grouping' = grouping]_vars

\* RequireRole answered 403 to a request whose roles the policy engine
\* grants read on employees
C20_Witness ==
    /\ ctx.gate.op = "RequireRole"
    /\ ctx.locals # Nil
    /\ ctx.locals.user_roles # <<>>
    /\ EnforceWithRoles(ctx.locals.user_roles, "employees", "read")
    /\ ~ctx.gate.next
    /\ ctx.status = 403

\* the answer RequirePermission gives a request bearing the token the
\* client holds
HeldOutcome(action) == RequirePermission(LocalsOf(held.claims), "employees", action)

\* C21 (as claimed): when a permission is revoked from a role after a token
\* carrying that role was issued, a request bearing the token gets the same
\* answer from RequirePermission as before the revocation, as long as the
\* token is valid.
C21_RevocationKeepsOutcome ==
    [][(/\ \/ rolePermTable' # rolePermTable /\ rolePermTable' \subseteq rolePermTable
           \/ \E r \in Rules : policy[r] > 0 /\ policy'[r] = 0
        /\ held # NoToken
        /\ ValidateToken(held, now).err = "nil")
          => \A action \in Actions : HeldOutcome(action)' = HeldOutcome(action)]_vars

\* C21 (amended): the token freezes the role names, not the permissions.
\* When a revocation removes the engine rule (role, resource, action) and
\* no role of a valid token issued before has that rule left, a request
\* bearing the token passed RequirePermission(resource, action) before the
\* revocation and is answered 403 after it.
C21_RevocationTakesEffect ==
    [][\A role \in RoleNames, action \in Actions :
          (/\ policy[<<role, "employees", action>>] > 0
           /\ policy'[<<role, "employees", action>>] = 0
           /\ held # NoToken
           /\ ValidateToken(held, now).err = "nil"
           /\ role \in Range(held.claims.Roles)
           /\ \A other \in Range(held.claims.Roles) :
                 policy'[<<other, "employees", action>>] = 0)
             => /\ HeldOutcome(action).next
                /\ ~HeldOutcome(action)'.next
                /\ HeldOutcome(action)'.status = 403]_vars

\* after employees.read was revoked from hr_manager without error, a request
\* bearing a valid token issued before the revocation passed AuthMiddleware
\* and was answered 403 by RequirePermission(employees, read)
C21_Witness ==
    /\ eres.op = "RemovePermissionFromRole"
    /\ eres.err = "nil"
    /\ RuleOf(eres.args[1], eres.args[2]) = <<"hr_manager", "employees", "read">>
    /\ ctx.gate.op = "RequirePermission"
    /\ ctx.gate.args = <<"employees", "read">>
    /\ ctx.locals # Nil
    /\ ctx.locals.user_roles = <<"hr_manager">>
    /\ ~ctx.gate.next
    /\ ctx.status = 403

\* ------------------------------------------------------------------------
\* Properties of the token lifecycle
\* ------------------------------------------------------------------------
\* C22: once the clock is past a token's expiry, no refresh operation
\* (AuthService.RefreshToken, authenticationService.RefreshToken over
\* jwtService.RefreshToken, RefreshTokenMiddleware) answers with a new token
\* for it.
C22_ExpiredIsTerminal ==
    [][(/\ eres'.op \in {"SvcRefreshToken", "AuthnRefreshToken", "RefreshTokenMiddleware"}
        /\ eres'.at = now
        /\ ValidateToken(eres'.args.token, now).err = "ErrExpiredToken")
          => eres'.token = NoToken]_vars

Allowed(role) ==
    {pair \in {<<r[2], r[3]>> : r \in KnownRules} : Enforce(role, pair[1], pair[2])}

OnEmployees == {<<"employees", a>> : a \in {"read", "create", "update", "delete"}}

PrivilegeChain ==
    /\ Allowed("employee") = {<<"employees", "read">>}
    /\ Allowed("hr_specialist") = OnEmployees
    /\ Allowed("hr_manager") =
          OnEmployees \cup {<<"users", "read">>, <<"users", "create">>, <<"users", "update">>,
                            <<"roles", "read">>}
    /\ Allowed("admin") =
          Allowed("super_admin") \ {<<"users", "assign_role">>, <<"users", "remove_role">>,
                                    <<"roles", "delete">>}
    /\ Allowed("super_admin") =
          OnEmployees
            \cup {<<"users", a>> : a \in {"read", "create", "update", "delete",
                                          "assign_role", "remove_role"}}
            \cup {<<"roles", a>> : a \in {"read", "create", "update", "delete"}}
    /\ Cardinality(Allowed("super_admin")) = 14
    /\ Cardinality(Allowed("admin")) = 11
    /\ \A pair \in {<<"employee", "hr_specialist">>, <<"hr_specialist", "hr_manager">>,
                    <<"hr_manager", "admin">>, <<"admin", "super_admin">>} :
          /\ Allowed(pair[1]) \subseteq Allowed(pair[2])
          /\ Allowed(pair[1]) # Allowed(pair[2])

C29_SuperAdminPassesRoutes ==
    [][(/\ ctx'.gate.op = "RequirePermission"
        /\ ctx'.gate.args \in RouteGates
        /\ ctx.locals # Nil
        /\ ctx.locals.user_roles = <<"super_admin">>
        /\ eres.op = "InitializeDefaultPolicies")
          => ctx'.gate.next]_vars

\* ------------------------------------------------------------------------
\* Deleting users and roles: UserUseCase.DeleteUser and
\* RoleUseCase.DeleteRole. Both rows are soft-deleted (DeletedAt), so the
\* user_roles rows that name a deleted role stay in users[id].roles
\* ------------------------------------------------------------------------
\* Enforcer.GetUsersForRole: the subjects of the g-tuples that name the role
GetUsersForRole(g, role) == {key \in {t[1] : t \in DOMAIN g} : g[<<key, role>>] > 0}

\* PolicyManager.RemoveRoleFromUser for any two strings: a pair that is no
\* tuple of the engine is not removed, and the engine's store is not touched
PmRemoveRoleFromUser(g, user, role, io) ==
    IF <<user, role>> \in DOMAIN g
    THEN DeleteRoleForUser(g, user, role, io)
    ELSE [grouping |-> g, err |-> "role assignment does not exist", io |-> FALSE]

\* UserUseCase.DeleteUser: the error of RemoveRoleFromUser(email, "") is
\* dropped
UcDeleteUser(id) ==
    IF ~users[id].exists THEN Unchanged("record not found")
    ELSE LET r == PmRemoveRoleFromUser(grouping, users[id].email, "", "ok") IN
         [users |-> [users EXCEPT ![id] = Deleted(users[id].email)],
          grouping |-> r.grouping, err |-> "nil", io |-> r.io, token |-> NoToken]

\* RoleUseCase.DeleteRole: only the engine is asked who holds the role; the
\* error of RemoveRoleFromUser("", name) is dropped
UcDeleteRole(role) ==
    IF role \notin roleTable
    THEN [roleTable |-> roleTable, grouping |-> grouping, err |-> "record not found"]
    ELSE IF GetUsersForRole(grouping, role) # {}
    THEN [roleTable |-> roleTable, grouping |-> grouping,
          err |-> "cannot delete role that is assigned to users"]
    ELSE [roleTable |-> roleTable \ {role},
          grouping |-> PmRemoveRoleFromUser(grouping, "", role, "ok").grouping,
          err |-> "nil"]

DoDeleteUser(id) == Apply("DeleteUser", id, UcDeleteUser(id))

DoDeleteRole(role) ==
    LET r == UcDeleteRole(role) IN
    /\ roleTable' = r.roleTable
    /\ grouping' = r.grouping
    /\ eres' = [op |-> "DeleteRole", args |-> role, err |-> r.err, result |-> FALSE,
                token |-> NoToken]
    /\ UNCHANGED <<users, rolePermTable, ctx, now, cfg, held, issuedTo, tres, policy, sync,
                   ioFailed>>

NextRoles ==
    \/ \E email \in Emails, failAt \in FailAts :
          \E order \in ListingOrders(email) : DoRegister(email, failAt, order)
    \/ \E userID \in UserIDs, role \in RoleInputs, io \in IOOutcomes :
          DoAssignRoleToUser(userID, role, io)
    \/ \E userID \in UserIDs, role \in RoleInputs, io \in IOOutcomes :
          DoRemoveRoleFromUser(userID, role, io)
    \/ \E userID \in UserIDs : DoDeleteUser(userID)
    \/ \E role \in RoleInputs : DoDeleteRole(role)

SpecRoles == InitAuth /\ [][NextRoles]_vars

\* ------------------------------------------------------------------------
\* Two executions of AuthService.Register, interleaved at the calls to the
\* database and to the policy engine; sync[p] is the execution of request p
\* ------------------------------------------------------------------------
\* an execution about to look the email up
RegisterProc(email) ==
    [pc |-> "check", email |-> email, id |-> 0, err |-> "nil", token |-> NoToken]

Fail(p, err) == [p EXCEPT !.pc = "done", !.err = err]

RegisterCall(p, q) ==
    /\ sync' = [sync EXCEPT ![p] = q]
    /\ UNCHANGED <<roleTable, rolePermTable, ctx, now, cfg, held, issuedTo, tres, policy,
                   eres>>

\* userRepo.GetByEmail: a row that is found ends the call
RegisterCheck(p) ==
    /\ sync[p].pc = "check"
    /\ RegisterCall(p, IF IdByEmail(sync[p].email) # 0
                       THEN Fail(sync[p], "ErrEmailAlreadyExists")
                       ELSE [sync[p] EXCEPT !.pc = "role"])
    /\ UNCHANGED <<users, grouping, ioFailed>>

\* roleRepo.GetByName("employee")
RegisterDefaultRole(p) ==
    /\ sync[p].pc = "role"
    /\ RegisterCall(p, IF "employee" \notin roleTable
                       THEN Fail(sync[p], "record not found")
                       ELSE [sync[p] EXCEPT !.pc = "create"])
    /\ UNCHANGED <<users, grouping, ioFailed>>

\* userRepo.Create: the unique index on email refuses a second row, live or
\* soft-deleted, with that email
RegisterCreate(p) ==
    /\ sync[p].pc = "create"
    /\ IF IdByEmail(sync[p].email) # 0 \/ EmailTaken(sync[p].email)
       THEN /\ RegisterCall(p, Fail(sync[p], "duplicate key value"))
            /\ UNCHANGED users
       ELSE /\ FreeIDs # {}
            /\ RegisterCall(p, [sync[p] EXCEPT !.pc = "reload", !.id = NextID])
            /\ users' = CreateRow(sync[p].email)
    /\ UNCHANGED <<grouping, ioFailed>>

\* userRepo.GetByIDWithRoles and tokenService.GenerateToken
RegisterReload(p) ==
    LET user == GetByIDWithRoles(sync[p].id) IN
    /\ sync[p].pc = "reload"
    /\ RegisterCall(p, IF user = Nil
                       THEN Fail(sync[p], "record not found")
                       ELSE [sync[p] EXCEPT !.pc = "sync",
                                            !.token = GenerateToken(user, now).token])
    /\ UNCHANGED <<users, grouping, ioFailed>>

\* policyManager.SyncUserPolicies, its error dropped, and the return
RegisterSync(p, failAt, order) ==
    LET r == SyncUserPolicies(GetByIDWithRoles(sync[p].id), grouping, failAt, order) IN
    /\ sync[p].pc = "sync"
    /\ RegisterCall(p, [sync[p] EXCEPT !.pc = "done"])
    /\ grouping' = r.grouping
    /\ ioFailed' = (ioFailed \/ r.io)
    /\ UNCHANGED users

InitRegisterRace ==
    /\ InitCommon
    /\ cfg = [tokenExpiration |-> MaxExpiration, refreshDuration |-> MaxWindow]
    /\ users \in {[id \in UserIDs |-> NoUser],
                  [id \in UserIDs |-> IF id = 1 THEN Deleted("alice@example.com") ELSE NoUser],
                  [id \in UserIDs |->
                      IF id = 1
                      THEN [exists |-> TRUE, email |-> "alice@example.com",
                            active |-> TRUE, roles |-> <<"employee">>]
                      ELSE NoUser]}
    /\ policy = NoRules
    /\ grouping = NoGroupings
    /\ eres = EIdle
    /\ sync \in [Procs -> {RegisterProc(email) : email \in Emails}]

NextRegisterRace ==
    \/ \E p \in Procs : RegisterCheck(p)
    \/ \E p \in Procs : RegisterDefaultRole(p)
    \/ \E p \in Procs : RegisterCreate(p)
    \/ \E p \in Procs : RegisterReload(p)
    \/ \E p \in Procs, failAt \in FailAts :
          \E order \in ListingOrders(sync[p].email) : RegisterSync(p, failAt, order)

SpecRegisterRace == InitRegisterRace /\ [][NextRegisterRace]_vars

\* ------------------------------------------------------------------------
\* Properties of the two stores under the use cases
\* ------------------------------------------------------------------------
\* C26: when UserUseCase.AssignRoleToUser or UserUseCase.RemoveRoleFromUser
\* returns an error, the user's role assignments in the database and the
\* engine's role-grouping tuples are what they were before the call.
C26_RoleWriteAllOrNothing ==
    [][(eres'.op \in {"AssignRoleToUser", "RemoveRoleFromUser"} /\ eres'.err # "nil")
          => (users' = users /\ grouping' = grouping)]_vars

\* the users that hold the role in the user_roles table
HoldersInTable(role) == {id \in UserIDs : users[id].exists /\ role \in Range(users[id].roles)}

\* C25: DeleteRole fails and leaves the role row in place while a user holds
\* the role in the user_roles table or a g-tuple of the engine names it.
C25_DeleteRoleBlockedWhileReferenced ==
    [][(/\ eres'.op = "DeleteRole"
        /\ eres'.args \in roleTable
        /\ \/ HoldersInTable(eres'.args) # {}
           \/ GetUsersForRole(grouping, eres'.args) # {})
          => (eres'.err # "nil" /\ roleTable' = roleTable)]_vars

\* C27: after DeleteUser has returned nil the engine holds no g-tuple for
\* the email of the deleted user.
C27_DeleteUserClearsEngine ==
    [][(eres'.op = "DeleteUser" /\ eres'.err = "nil")
          => \A role \in RoleNames : grouping'[<<users[eres'.args].email, role>>] = 0]_vars

\* C28: when SyncUserPolicies returns an error the engine's g-tuples of the
\* user are the ones it had before the call.
C28_SyncAllOrNothing ==
    [][(eres'.op = "SyncUserPolicies" /\ eres'.err # "nil")
          => GetRolesForUser(grouping', eres'.args.Email)
                = GetRolesForUser(grouping, eres'.args.Email)]_vars

\* C30: when two concurrent Register calls with the same email have
\* returned, at most one has a token, at most one live row has the email,
\* and the call that did not create the user has failed with
\* ErrEmailAlreadyExists, which the handler reports as 409.
C30_ConcurrentRegister ==
    (/\ \A p \in Procs : sync[p].pc = "done"
     /\ sync[1].email = sync[2].email)
       => /\ Cardinality({p \in Procs : sync[p].token # NoToken}) <= 1
          /\ Cardinality({id \in UserIDs : /\ users[id].exists
                                           /\ users[id].email = sync[1].email}) <= 1
          /\ \A p, q \in Procs :
                (sync[q].id # 0 /\ sync[p].id = 0)
                   => /\ sync[p].err = "ErrEmailAlreadyExists"
                      /\ RegisterStatus(sync[p].err) = 409

====
